---------------------------- MODULE Spec2Model ----------------------------
(***************************************************************************)
(* A model of the forecasting core of the Public-Health-Info-AI backend:   *)
(*   services/forecast.py   get_monthly_history (live -> local ->          *)
(*                          synthetic resolver), _to_monthly_df, the four  *)
(*                          forecast strategies and forecast_monthly;      *)
(*   services/local_data.py fetch_local_timeseries (its return shapes).    *)
(*                                                                         *)
(* Representation.                                                         *)
(*   - A timestamp is [m, d]: m counts months from 2021-01 (m = 0), d is   *)
(*     the day of the month.  Leap years follow year % 4 = 0.              *)
(*   - An observation row (a dict of the series lists) is                  *)
(*     [m, d, dk, v, vk]: dk says what the "date" entry is ("ok" a         *)
(*     parsable date, "none" a null, "bad" an unparsable string), vk what  *)
(*     the "value" entry is ("num" a number, "none" a null, "str" a        *)
(*     non-numeric string).  m, d and v are meaningful only when dk, vk    *)
(*     say so.                                                             *)
(*   - History values are integers.  Forecast numbers (mean, bounds) are   *)
(*     fixed-point integers in units of 1/Scale; a standard deviation is   *)
(*     the integer square root (floor) of the scaled variance.             *)
(*   - Python strings that the code inspects (disease, region) are         *)
(*     sequences of one-character strings.                                 *)
(***************************************************************************)
EXTENDS Integers, Sequences, FiniteSets, TLC

VARIABLES
    pc,          \* position of the running call ("idle" when none runs)
    raisedAt,    \* where an exception left the call ("" when none did)
    disease,     \* argument disease (character sequence)
    region,      \* argument region (character sequence)
    dateFrom,    \* argument date_from: [m, d, dk]
    horizon,     \* argument horizon_months
    env,         \* behaviour of the libraries and collaborators during this call
    series,      \* get_monthly_history: the local variable series (rows or None)
    provenance,  \* the provenance list
    warnings,    \* the warnings list
    triedRegions,\* get_monthly_history: tried_regions
    ri,          \* index of the next candidate of the local loop
    gotLocal,    \* get_monthly_history: got_local
    monthly,     \* the monthly frame (hist_df / y): sequence of [m, d, value]
    mean,        \* selector: mean (None or sequence of [idx, yhat])
    conf,        \* selector: conf (sequence of [lo, hi], aligned with mean)
    method,      \* selector: method
    tried,       \* selector: tried (diagnostics of failed strategies)
    result,      \* the ForecastResult returned
    liveRet,     \* what fetch_covid_timeseries answered during this call
    localRet,    \* what fetch_local_timeseries answered last during this call
    log          \* the stages executed by this call, in order

vars == <<pc, raisedAt, disease, region, dateFrom, horizon, env, series,
          provenance, warnings, triedRegions, ri, gotLocal, monthly, mean,
          conf, method, tried, result, liveRet, localRet, log>>

-----------------------------------------------------------------------------
(* Python values and small helpers                                         *)

\* Python's None for the variable series.  Every use of series in forecast.py
\* (lines 154, 161, 183, 45) is a truth test, which None and [] answer alike,
\* so both are the empty sequence.
None == <<>>

\* Optional[pd.Series] for the selector's mean: None, or a (possibly empty) series
NoneMean == [none |-> TRUE, rows |-> <<>>]
SomeMeanLost(rows) == [none |-> TRUE, rows |-> rows]
SomeMean(rows) == [none |-> FALSE, rows |-> rows]

\* sum of the field value of the rows of a sequence
RECURSIVE SumV(_)
SumV(rows) == IF rows = <<>> THEN 0 ELSE Head(rows).v + SumV(Tail(rows))

\* max(values), min(values) of a non-empty list of numbers
MaxOf(values) == CHOOSE x \in {values[i] : i \in DOMAIN values} :
                    \A j \in DOMAIN values : values[j] <= x
MinOf(values) == CHOOSE x \in {values[i] : i \in DOMAIN values} :
                    \A j \in DOMAIN values : values[j] >= x

\* forecast.py:34  _is_flat(values); 1e-9 on integers is equality
_is_flat(values) ==
    IF Len(values) < 2 THEN TRUE
    ELSE MaxOf(values) - MinOf(values) < 1

-----------------------------------------------------------------------------
(* Calendar                                                                *)

YearOf(m) == 2021 + (m \div 12)
MonthOf(m) == (m % 12) + 1
DaysIn(m) ==
    CASE MonthOf(m) \in {4, 6, 9, 11} -> 30
      [] MonthOf(m) = 2 -> (IF YearOf(m) % 4 = 0 THEN 29 ELSE 28)
      [] OTHER -> 31

\* d.strftime("%Y-%m-%d") of a timestamp
Strftime(ts) == [year |-> YearOf(ts.m), month |-> MonthOf(ts.m), day |-> ts.d]

\* ts + pd.offsets.MonthBegin(1): the next month start, from any day
MonthBegin1RollsOnly(ts) == [m |-> IF ts.d = 1 THEN ts.m ELSE ts.m + 1, d |-> 1]
MonthBegin1(ts) == [m |-> ts.m + 1, d |-> 1]

-----------------------------------------------------------------------------
(* Monthly Series Normalizer: forecast.py:40 _to_monthly_df                *)

\* line 50: pd.to_datetime(df["date"]) raises on a string it cannot parse
ToDatetimeRaises(rows) == \E i \in DOMAIN rows : rows[i].dk = "bad"

\* lines 50-52: a null date becomes NaT, a null or non-numeric value becomes
\* NaN (errors="coerce"); dropna removes those rows
DropNa(rows) == SelectSeq(rows, LAMBDA r : r.dk = "ok" /\ r.vk = "num")

\* line 52: sort_values("date"); the position of a timestamp among timestamps
DateLt(a, b) == a.m < b.m \/ (a.m = b.m /\ a.d < b.d)
IsSortedByDate(rows) ==
    \A i \in 1..(Len(rows) - 1) : ~DateLt(rows[i + 1], rows[i])
RECURSIVE SortValues(_)
SortValues(rows) ==
    IF IsSortedByDate(rows) THEN rows
    ELSE LET i == CHOOSE k \in DOMAIN rows :
                    \A j \in DOMAIN rows :
                        ~DateLt(rows[j], rows[k]) /\ (DateLt(rows[k], rows[j]) \/ k <= j)
             rest == [j \in 1..(Len(rows) - 1) |-> IF j < i THEN rows[j] ELSE rows[j + 1]]
         IN <<rows[i]>> \o SortValues(rest)

\* line 56: len(df) >= 28 and df["date"].dt.day.nunique() > 5
DailyMinRows == 28
DailyMinDays == 5
IsDailyByLength(df) == Len(df) >= DailyMinRows
IsDaily(df) ==
    /\ Len(df) >= DailyMinRows
    /\ Cardinality({df[i].d : i \in DOMAIN df}) > DailyMinDays

\* the aggregate of one bin: .sum()
AggMean(rows) == IF rows = <<>> THEN 0 ELSE SumV(rows) \div Len(rows)
Agg(rows) == SumV(rows)

\* lines 57-62: resample("MS").sum(): one bin per calendar month from the
\* first to the last month of the data (empty bins sum to 0), labelled by the
\* month start
Resample(df) ==
    LET lo == df[1].m
        hi == df[Len(df)].m
    IN [k \in 1..(hi - lo + 1) |->
            [m |-> lo + k - 1, d |-> 1,
             value |-> Agg(SelectSeq(df, LAMBDA r : r.m = lo + k - 1))]]

\* line 65: values.astype("datetime64[M]") truncates a timestamp to its month
SnapKeepsDay(r) == r
SnapToMonth(r) == [r EXCEPT !.d = 1]

\* lines 66-70: groupby("date")["value"].sum(): one row per distinct date, keys
\* in ascending order (groupby sorts its keys)
RECURSIVE GroupBySum(_)
GroupBySum(df) ==
    IF df = <<>> THEN <<>>
    ELSE LET key == [m |-> df[1].m, d |-> df[1].d]
             same == SelectSeq(df, LAMBDA r : r.m = key.m /\ r.d = key.d)
             rest == SelectSeq(df, LAMBDA r : ~(r.m = key.m /\ r.d = key.d))
         IN <<[m |-> key.m, d |-> key.d, value |-> Agg(same)]>> \o GroupBySum(rest)

\* line 72: monthly.sort_index()
RECURSIVE SortIndex(_)
SortIndex(frame) ==
    IF IsSortedByDate(frame) THEN frame
    ELSE LET i == CHOOSE k \in DOMAIN frame :
                    \A j \in DOMAIN frame : ~DateLt(frame[j], frame[k])
             rest == [j \in 1..(Len(frame) - 1) |-> IF j < i THEN frame[j] ELSE frame[j + 1]]
         IN <<frame[i]>> \o SortIndex(rest)

\* _to_monthly_df(series) when it does not raise; an empty frame is <<>>
_to_monthly_df(rows) ==
    IF rows = None THEN <<>>
    ELSE LET df == SortValues(DropNa(rows))
         IN IF IsDaily(df)
            THEN SortIndex(Resample(df))
            ELSE SortIndex(GroupBySum([i \in DOMAIN df |-> SnapToMonth(df[i])]))

-----------------------------------------------------------------------------
(* Python strings as character sequences                                   *)

LowerChars == <<"a","b","c","d","e","f","g","h","i","j","k","l","m",
                "n","o","p","q","r","s","t","u","v","w","x","y","z">>
UpperChars == <<"A","B","C","D","E","F","G","H","I","J","K","L","M",
                "N","O","P","Q","R","S","T","U","V","W","X","Y","Z">>
IsLowerChar(c) == \E i \in DOMAIN LowerChars : LowerChars[i] = c
IsUpperChar(c) == \E i \in DOMAIN UpperChars : UpperChars[i] = c
LowerChar(c) == IF IsUpperChar(c)
                THEN LowerChars[CHOOSE i \in DOMAIN UpperChars : UpperChars[i] = c]
                ELSE c
UpperChar(c) == IF IsLowerChar(c)
                THEN UpperChars[CHOOSE i \in DOMAIN LowerChars : LowerChars[i] = c]
                ELSE c
\* str.lower(), str.upper(), str.isalpha(), str.strip()
StrLower(s) == [i \in DOMAIN s |-> LowerChar(s[i])]
StrUpper(s) == [i \in DOMAIN s |-> UpperChar(s[i])]
StrIsAlpha(s) == s # <<>> /\ \A i \in DOMAIN s : IsLowerChar(s[i]) \/ IsUpperChar(s[i])
IsSpace(c) == c = " "
RECURSIVE LStrip(_)
LStrip(s) == IF s # <<>> /\ IsSpace(Head(s)) THEN LStrip(Tail(s)) ELSE s
RECURSIVE RStrip(_)
RStrip(s) == IF s # <<>> /\ IsSpace(s[Len(s)]) THEN RStrip(SubSeq(s, 1, Len(s) - 1)) ELSE s
StrStrip(s) == RStrip(LStrip(s))
\* sub in s
StrContainsReversed(s, sub) ==
    \E i \in 0..(Len(sub) - Len(s)) : SubSeq(sub, i + 1, i + Len(s)) = s
StrContains(s, sub) ==
    \E i \in 0..(Len(s) - Len(sub)) : SubSeq(s, i + 1, i + Len(sub)) = sub

-----------------------------------------------------------------------------
(* Region normalization: forecast.py:83-130                                *)

\* forecast.py:83-88  _ALIAS_TO_ISO3 (the empty string when the key is absent)
_ALIAS_TO_ISO3(key) ==
    CASE key = <<"w","o","r","l","d">> -> <<"W","L","D">>
      [] key = <<"g","l","o","b","a","l">> -> <<"W","L","D">>
      [] key = <<"u","s","a">> -> <<"U","S","A">>
      [] key = <<"u","n","i","t","e","d"," ","s","t","a","t","e","s">> -> <<"U","S","A">>
      [] OTHER -> <<>>

\* timeseries.to_iso3: country name or code -> ISO3 code, the empty string
\* when it resolves nothing
to_iso3(s) ==
    LET k == StrLower(StrStrip(s))
    IN CASE k = <<"s","r","i"," ","l","a","n","k","a">> -> <<"L","K","A">>
         [] k = <<"l","k","a">> -> <<"L","K","A">>
         [] k = <<"u","s","a">> -> <<"U","S","A">>
         [] k = <<"i","n","d","i","a">> -> <<"I","N","D">>
         [] k = <<"w","o","r","l","d">> -> <<"W","L","D">>
         [] OTHER -> <<>>

\* the candidates as collected, repetitions kept
KeepAll(xs) == xs
\* lines 124-130: uniqueness, first occurrences kept in order
RECURSIVE Uniq(_)
Uniq(xs) ==
    IF xs = <<>> THEN <<>>
    ELSE LET init == Uniq(SubSeq(xs, 1, Len(xs) - 1))
             x == xs[Len(xs)]
         IN IF \E i \in DOMAIN init : init[i] = x THEN init ELSE Append(init, x)

InList(x, xs) == \E i \in DOMAIN xs : xs[i] = x

\* _region_candidates(region); isoRaises: to_iso3 raises during this call
_region_candidates(reg, isoRaises) ==
    LET s == StrStrip(reg)
        c1 == <<s>>
        alias == _ALIAS_TO_ISO3(StrLower(s))
        c2 == IF alias # <<>> THEN Append(c1, alias) ELSE c1
        iso == to_iso3(s)
        c3 == IF ~isoRaises /\ iso # <<>> /\ ~InList(StrUpper(iso), c2)
              THEN Append(c2, StrUpper(iso)) ELSE c2
        up == StrUpper(s)
        c4 == IF Len(s) = 3 /\ StrIsAlpha(s) /\ ~InList(up, c3)
              THEN Append(c3, up) ELSE c3
    IN IF s = <<>> THEN <<>> ELSE Uniq(c4)

-----------------------------------------------------------------------------
(* Numbers of the forecast: fixed point, 1/Scale                           *)

Scale == 100
\* float("nan"), as a standard deviation (every defined one is >= 0)
NaN == 0 - 1
IsNan(x) == x = NaN

RECURSIVE SumSeq(_)
SumSeq(xs) == IF xs = <<>> THEN 0 ELSE Head(xs) + SumSeq(Tail(xs))

\* floor of the square root, by bisection on [lo, hi]
RECURSIVE IsqrtIn(_, _, _)
IsqrtIn(n, lo, hi) ==
    IF lo >= hi THEN lo
    ELSE LET mid == (lo + hi + 1) \div 2
         IN IF mid * mid <= n THEN IsqrtIn(n, mid, hi) ELSE IsqrtIn(n, lo, mid - 1)
Isqrt(n) == IsqrtIn(n, 0, 46340)

\* Series.std(ddof=1) of integer values, in 1/Scale: NaN below two values
Std(xs) ==
    LET k == Len(xs)
        sx == SumSeq(xs)
        sxx == SumSeq([i \in DOMAIN xs |-> xs[i] * xs[i]])
        num == k * sxx - sx * sx
    IN IF k < 2 THEN NaN
       ELSE Isqrt((((num * Scale) \div (k * (k - 1))) * Scale))

\* y.tail(w) and y.iloc[k] (a negative k counts from the end)
TailOf(xs, w) == SubSeq(xs, Len(xs) - w + 1, Len(xs))
Iloc(xs, k) == IF k < 0 THEN xs[Len(xs) + k + 1] ELSE xs[k + 1]

\* the values of a monthly frame: y = hist_df["value"].astype(float)
ValuesOf(frame) == [i \in DOMAIN frame |-> frame[i].value]

\* forecast.py:77  _make_future_month_index(last_month, steps): pd.date_range(
\* last_month + MonthBegin(1), periods=steps, freq="MS").  With periods < 0 the
\* pandas build either raises or returns an empty index (negPeriods).
MakeIndexRaises(steps, negPeriods) == steps < 0 /\ negPeriods = "raise"
_make_future_month_index(last_month, steps) ==
    LET start == MonthBegin1(last_month)
    IN [i \in 1..steps |-> [ik |-> "ts", m |-> start.m + i - 1, d |-> start.d]]

\* pd.Series(vals, index=idx) zipped with a symmetric band into mean and conf
MeanRows(idx, vals) == [i \in DOMAIN idx |-> [ik |-> idx[i].ik, m |-> idx[i].m,
                                              d |-> idx[i].d, yhat |-> vals[i]]]
ConfRows(vals, band) == [i \in DOMAIN vals |-> [lo |-> vals[i] - band, hi |-> vals[i] + band]]

\* the last timestamp of the history index: y.index[-1]
LastIndex(frame) == [m |-> frame[Len(frame)].m, d |-> frame[Len(frame)].d]

\* forecast.py:229-250  _naive_seasonal_forecast
SeasonalPeriod == 12
NaiveFromStartValue(y, i) == Iloc(y, i % SeasonalPeriod)
NaiveValue(y, i) == Iloc(y, (0 - SeasonalPeriod) + (i % SeasonalPeriod))
NaiveAppliesAbovePeriod(y) == Len(y) > SeasonalPeriod
NaiveApplies(y) == Len(y) >= SeasonalPeriod
NaiveMinResids == 3
NaiveSd(y) ==
    LET resids == [i \in 1..(Len(y) - SeasonalPeriod) |-> y[i + SeasonalPeriod] - y[i]]
    IN IF Len(resids) >= NaiveMinResids THEN Std(resids) ELSE Std(y)
NaiveBand(y) == (128 * NaiveSd(y)) \div 100
NaiveVals(y, steps) == [i \in 1..steps |-> Scale * NaiveValue(y, i - 1)]

\* forecast.py:253-266  _moving_avg_forecast
MovingWindowMax == 6
MovingAppliesFromOne(y) == Len(y) >= 1
MovingApplies(y) == Len(y) >= 2
MovingW(y) == IF Len(y) < MovingWindowMax THEN Len(y) ELSE MovingWindowMax
MovingAvg(y) == (Scale * SumSeq(TailOf(y, MovingW(y)))) \div MovingW(y)
MovingSdWholeSeries(y) == y
MovingSdWindow(y) == IF MovingW(y) >= 3 THEN TailOf(y, MovingW(y)) ELSE y
MovingSd(y) == Std(MovingSdWindow(y))
MovingBand(y) ==
    LET sd == MovingSd(y)
    IN (164 * (IF ~IsNan(sd) THEN sd ELSE (15 * (MovingAvg(y) + Scale)) \div 100)) \div 100
MovingVals(y, steps) == [i \in 1..steps |-> MovingAvg(y)]

\* forecast.py:315-329  synthetic extension
\* 1 + 0.02 * sin((i % 12) / 12 * 2 pi), in 1/10000
WiggleFactor(i) ==
    <<10000, 10100, 10173, 10200, 10173, 10100,
      10000, 9900, 9827, 9800, 9827, 9900>>[(i % 12) + 1]
SynthBaseStart(y) == IF Len(y) > 0 THEN Scale * Iloc(y, 0 - 1) ELSE Scale * 100
RECURSIVE SynthCur(_, _)
SynthCur(base, i) ==
    IF i < 0 THEN base ELSE (SynthCur(base, i - 1) * WiggleFactor(i)) \div 10000
SynthVals(y, steps) == [i \in 1..steps |-> SynthCur(SynthBaseStart(y), i - 1)]
SynthBand(y) ==
    LET a == (20 * SynthBaseStart(y)) \div 100
    IN IF a > 10 * Scale THEN a ELSE 10 * Scale

\* lines 340-341: the clamp of a bound
ClampNone(x) == x
Clamp(x) == IF x > 0 THEN x ELSE 0

-----------------------------------------------------------------------------
(* Bounds and the inputs drawn within them                                 *)

MaxHorizon == 13
MaxExtra == 1

Row(m, d, v) == [m |-> m, d |-> d, dk |-> "ok", v |-> v, vk |-> "num"]
MonthlyRows(start, vals) == [i \in DOMAIN vals |-> Row(start + i - 1, 1, vals[i])]
Ramp(n, a, b) == [i \in 1..n |-> a + b * i]
\* every day of the months start .. start + nMonths - 1, value f[d] on day d
RECURSIVE DailyRows(_, _, _)
DailyRows(start, nMonths, f) ==
    IF nMonths = 0 THEN <<>>
    ELSE [d \in 1..DaysIn(start) |-> Row(start, d, f[d])]
         \o DailyRows(start + 1, nMonths - 1, f)

Disease_covid == <<"C","O","V","I","D","-","1","9">>
Disease_dengue == <<"D","e","n","g","u","e">>
\* the empty string stands for a disease of "" and of None alike (disease or "")
Disease_empty == <<>>
Diseases == {Disease_covid, Disease_dengue, Disease_empty}

Region_srilanka == <<"S","r","i"," ","L","a","n","k","a">>
Region_blank == <<" ">>
Regions == {Region_srilanka, Region_blank}

DateFroms == {[m |-> 2, d |-> 15, dk |-> "ok"], [m |-> 0, d |-> 0, dk |-> "bad"]}

Horizons == {0 - 1, 0, 3, 6, MaxHorizon}

\* an adapter's answer: it raises, returns None, or returns rows
Raises == [kind |-> "raise", rows |-> <<>>]
ReturnsNone == [kind |-> "none", rows |-> <<>>]
Returns(rows) == [kind |-> "rows", rows |-> rows]

\* what fetch_covid_timeseries may answer (a collaborator: any of these)
LiveSeries ==
    { MonthlyRows(0, <<5, 5>>),                        \* flat, 2 points
      MonthlyRows(0, <<3, 8>>),                        \* usable, 2 months
      MonthlyRows(0, <<7>>),                           \* a single point
      <<Row(0, 1, 2), Row(0, 15, 9)>>,                 \* usable, one month
      <<Row(0, 1, 4), [Row(1, 1, 0) EXCEPT !.vk = "none"]>>,   \* a null value
      <<Row(0, 1, 4), [Row(1, 1, 6) EXCEPT !.dk = "bad"]>>,    \* a garbage date
      <<[Row(0, 1, 4) EXCEPT !.dk = "none"],
        [Row(0, 1, 6) EXCEPT !.dk = "none"]>>,                 \* null dates
      DailyRows(0, 2, [d \in 1..31 |-> 10 + (d % 2)]) }       \* daily, two months
LiveOutcomes == {Raises, ReturnsNone} \cup {Returns(r) : r \in LiveSeries}

\* what fetch_local_timeseries may answer for one region key
\* (local_data.py:18-62: None, or a non-empty list of numeric rows, or it raises)
LocalSeries ==
    { MonthlyRows(0, Ramp(24 + e, 0, 1)) : e \in 0..MaxExtra }
    \cup { MonthlyRows(0, Ramp(12 + e, 0, 10)) : e \in 0..MaxExtra }
    \cup { MonthlyRows(0, Ramp(16, 200, 0 - 7)) }
    \cup { MonthlyRows(0, Ramp(12, 0, 1)) \o MonthlyRows(13, Ramp(12, 12, 1)) }
    \cup { MonthlyRows(3, <<0 - 5, 0 - 3>>),
           MonthlyRows(3, <<4, 9, 2>>),
           MonthlyRows(1, <<6, 1, 8, 3, 9, 2, 7>>),
           MonthlyRows(5, <<7>>),
           MonthlyRows(0, [i \in 1..12 |-> 5]),
           <<Row(0, 1, 4), Row(0, 1, 6), Row(2, 1, 3)>>,
           <<Row(0, 1, 2), Row(0, 15, 3)>> \o MonthlyRows(1, [i \in 1..11 |-> 5]) }
LocalOutcomes == {Raises, ReturnsNone} \cup {Returns(r) : r \in LocalSeries}

\* timeseries.generate_synthetic_timeseries(date_from, date_to, points=12,
\* start_value=100.0): a deterministic 12-point seasonal baseline around 100,
\* one point per month from the month of date_from
SynthPoints == 12
SynthBaseline ==
    <<100, 105, 109, 110, 109, 105, 100, 95, 91, 90, 91, 95>>
generate_synthetic_timeseries(date_from) ==
    MonthlyRows(IF date_from.dk = "ok" THEN date_from.m ELSE 0,
                [i \in 1..SynthPoints |-> SynthBaseline[((i - 1) % 12) + 1]])
\* how the generator behaves during one call: as specified, returning
\* nothing, or raising
SynthBehaviours == {"ok", "empty", "raise"}
SynthAnswer(behaviour, date_from) ==
    IF behaviour = "ok" THEN generate_synthetic_timeseries(date_from) ELSE <<>>

\* what the SARIMAX fit may forecast: a level and a half-width, in 1/Scale
SarimaxLevels == {0 - (2 * Scale), 40 * Scale}
SarimaxHalfWidth == 5 * Scale

-----------------------------------------------------------------------------
(* Strings the code appends                                                *)

LiveTag == "live: disease.sh (JHU)"
LocalTag == "local: monthly dataset (region key='{r}')"
SynthTag == "synthetic: seasonal baseline (no/flat data)"
SynthEmptyTag == "synthetic: seasonal baseline (history empty)"
NoDataWarning == "No usable live or local data in the requested window."
EmptyHistoryWarning == "Empty history; using synthetic baseline."
SynthExtWarning == "Forecast produced from synthetic extension (no usable model)."

\* a provenance entry: the format string and the region key it was filled with
Prov(tag, key) == [tag |-> tag, key |-> key]

NoResult == [history |-> <<>>, forecast |-> <<>>, method |-> "",
             provenance |-> <<>>, warnings |-> <<>>]
NotCalled == [kind |-> "not called", rows |-> <<>>]
Stage(name, key, out) == [stage |-> name, key |-> key, out |-> out]

-----------------------------------------------------------------------------
(* get_monthly_history: forecast.py:135-196                                *)

\* line 144
disease_l == StrStrip(StrLower(disease))

\* lines 161 and 183: float(x.get("value", 0.0)) raises on a null or a
\* non-numeric string; it is reached only past the two short-circuits
FloatRaises(rows) ==
    /\ rows # None
    /\ Len(rows) >= 2
    /\ \E i \in DOMAIN rows : rows[i].vk # "num"
\* lines 161 and 183: not series or len(series) < 2 or _is_flat([...])
NeedsFallbackShortOnly(rows) == rows = None \/ Len(rows) < 2
NeedsFallback(rows) ==
    \/ rows = None
    \/ Len(rows) < 2
    \/ _is_flat([i \in DOMAIN rows |-> rows[i].v])

Init ==
    /\ pc = "idle"
    /\ raisedAt = ""
    /\ disease = <<>>
    /\ region = <<>>
    /\ dateFrom = [m |-> 0, d |-> 1, dk |-> "ok"]
    /\ horizon = 0
    /\ env = [negPeriods |-> "empty", synth |-> "unset"]
    /\ series = None
    /\ provenance = <<>>
    /\ warnings = <<>>
    /\ triedRegions = <<>>
    /\ ri = 0
    /\ gotLocal = FALSE
    /\ monthly = <<>>
    /\ mean = NoneMean
    /\ conf = <<>>
    /\ method = ""
    /\ tried = <<>>
    /\ result = NoResult
    /\ liveRet = NotCalled
    /\ localRet = NotCalled
    /\ log = <<>>

\* a caller invokes forecast_monthly(disease, region, date_from, date_to, horizon_months)
Call ==
    /\ pc = "idle"
    /\ \E dis \in Diseases, reg \in Regions, df \in DateFroms, h \in Horizons :
         \E np \in (IF h < 0 THEN {"raise", "empty"} ELSE {"empty"}) :
            /\ disease' = dis
            /\ region' = reg
            /\ dateFrom' = df
            /\ horizon' = h
            /\ env' = [negPeriods |-> np, synth |-> "unset"]
    /\ pc' = "live"
    /\ UNCHANGED <<raisedAt, series, provenance, warnings, triedRegions, ri, gotLocal,
                   monthly, mean, conf, method, tried, result, liveRet, localRet, log>>

Raise(where) ==
    /\ pc' = "raised"
    /\ raisedAt' = where

\* lines 150-157, disease_l contains "covid"
LiveFetch ==
    /\ pc = "live"
    /\ StrContains(disease_l, <<"c","o","v","i","d">>)
    /\ \E out \in LiveOutcomes :
         /\ series' = (IF out.kind = "rows" THEN out.rows ELSE None)
         /\ provenance' = (IF out.kind = "rows" /\ out.rows # <<>>
                           THEN Append(provenance, Prov(LiveTag, <<>>)) ELSE provenance)
         /\ liveRet' = out
         /\ log' = Append(log, Stage("live", <<>>, out.kind))
    /\ pc' = "local"
    /\ UNCHANGED <<raisedAt, disease, region, dateFrom, horizon, env, warnings,
                   triedRegions, ri, gotLocal, monthly, mean, conf, method, tried,
                   result, localRet>>

\* lines 150-157, any other disease
LiveSkip ==
    /\ pc = "live"
    /\ ~StrContains(disease_l, <<"c","o","v","i","d">>)
    /\ pc' = "local"
    /\ UNCHANGED <<raisedAt, disease, region, dateFrom, horizon, env, series, provenance,
                   warnings, triedRegions, ri, gotLocal, monthly, mean, conf, method,
                   tried, result, liveRet, localRet, log>>

\* line 161 raises
LocalGuardRaises ==
    /\ pc = "local"
    /\ FloatRaises(series)
    /\ Raise("get_monthly_history:161")
    /\ UNCHANGED <<disease, region, dateFrom, horizon, env, series, provenance, warnings,
                   triedRegions, ri, gotLocal, monthly, mean, conf, method, tried,
                   result, liveRet, localRet, log>>

\* line 161 is false: the live series is kept
LocalSkip ==
    /\ pc = "local"
    /\ ~FloatRaises(series)
    /\ ~NeedsFallback(series)
    /\ pc' = "synthetic"
    /\ UNCHANGED <<raisedAt, disease, region, dateFrom, horizon, env, series, provenance,
                   warnings, triedRegions, ri, gotLocal, monthly, mean, conf, method,
                   tried, result, liveRet, localRet, log>>

\* lines 161-165
LocalBegin ==
    /\ pc = "local"
    /\ ~FloatRaises(series)
    /\ NeedsFallback(series)
    /\ \E isoRaises \in BOOLEAN :
         LET cands == _region_candidates(region, isoRaises)
         IN triedRegions' = (IF cands = <<>> THEN <<region>> ELSE cands)
    /\ ri' = 1
    /\ gotLocal' = FALSE
    /\ pc' = "local_loop"
    /\ UNCHANGED <<raisedAt, disease, region, dateFrom, horizon, env, series, provenance,
                   warnings, monthly, mean, conf, method, tried, result, liveRet,
                   localRet, log>>

\* lines 167-177: one iteration of the loop over tried_regions
LocalAcceptKeepsOld(old, series_local) == old
LocalAccept(old, series_local) == series_local
\* lines 167-177 without the try of lines 168-171
LocalTryPropagates ==
    /\ pc = "local_loop"
    /\ ri <= Len(triedRegions)
    /\ \E out \in LocalOutcomes :
         LET r == triedRegions[ri]
             series_local == IF out.kind = "rows" THEN out.rows ELSE <<>>
         IN /\ localRet' = out
            /\ log' = Append(log, Stage("local", r, out.kind))
            /\ IF out.kind = "raise"
               THEN /\ Raise("get_monthly_history:169")
                    /\ UNCHANGED <<series, provenance, gotLocal, ri>>
               ELSE /\ UNCHANGED raisedAt
                    /\ IF series_local # <<>>
                       THEN /\ series' = LocalAccept(series, series_local)
                            /\ provenance' = Append(provenance, Prov(LocalTag, r))
                            /\ gotLocal' = TRUE
                            /\ pc' = "synthetic"
                            /\ ri' = ri
                       ELSE /\ ri' = ri + 1
                            /\ pc' = pc
                            /\ UNCHANGED <<series, provenance, gotLocal>>
    /\ UNCHANGED <<disease, region, dateFrom, horizon, env, warnings,
                   triedRegions, monthly, mean, conf, method, tried, result, liveRet>>
LocalTry ==
    /\ pc = "local_loop"
    /\ ri <= Len(triedRegions)
    /\ \E out \in LocalOutcomes :
         LET r == triedRegions[ri]
             series_local == IF out.kind = "rows" THEN out.rows ELSE <<>>
         IN /\ localRet' = out
            /\ log' = Append(log, Stage("local", r, out.kind))
            /\ IF series_local # <<>>
               THEN /\ series' = LocalAccept(series, series_local)
                    /\ provenance' = Append(provenance, Prov(LocalTag, r))
                    /\ gotLocal' = TRUE
                    /\ pc' = "synthetic"
                    /\ ri' = ri
               ELSE /\ ri' = ri + 1
                    /\ pc' = pc
                    /\ UNCHANGED <<series, provenance, gotLocal>>
    /\ UNCHANGED <<raisedAt, disease, region, dateFrom, horizon, env, warnings,
                   triedRegions, monthly, mean, conf, method, tried, result, liveRet>>

\* lines 179-180 with a provenance entry for the stage that found nothing
LocalExhaustedTagged ==
    /\ pc = "local_loop"
    /\ ri > Len(triedRegions)
    /\ ~gotLocal
    /\ warnings' = Append(warnings, NoDataWarning)
    /\ provenance' = Append(provenance, Prov(LocalTag, <<>>))
    /\ pc' = "synthetic"
    /\ UNCHANGED <<raisedAt, disease, region, dateFrom, horizon, env, series,
                   triedRegions, ri, gotLocal, monthly, mean, conf, method, tried,
                   result, liveRet, localRet, log>>

\* lines 179-180 without the warning
LocalExhaustedSilent ==
    /\ pc = "local_loop"
    /\ ri > Len(triedRegions)
    /\ ~gotLocal
    /\ pc' = "synthetic"
    /\ UNCHANGED <<raisedAt, disease, region, dateFrom, horizon, env, series, provenance,
                   warnings, triedRegions, ri, gotLocal, monthly, mean, conf, method,
                   tried, result, liveRet, localRet, log>>

\* lines 179-180: the loop ended without a match
LocalExhausted ==
    /\ pc = "local_loop"
    /\ ri > Len(triedRegions)
    /\ ~gotLocal
    /\ warnings' = Append(warnings, NoDataWarning)
    /\ pc' = "synthetic"
    /\ UNCHANGED <<raisedAt, disease, region, dateFrom, horizon, env, series, provenance,
                   triedRegions, ri, gotLocal, monthly, mean, conf, method, tried,
                   result, liveRet, localRet, log>>

\* line 183 is false (its float() cannot raise here: a series that reaches
\* it passed line 161 or came from fetch_local_timeseries, whose values are floats)
SynthSkip ==
    /\ pc = "synthetic"
    /\ ~NeedsFallback(series)
    /\ pc' = "normalize"
    /\ UNCHANGED <<raisedAt, disease, region, dateFrom, horizon, env, series, provenance,
                   warnings, triedRegions, ri, gotLocal, monthly, mean, conf, method,
                   tried, result, liveRet, localRet, log>>

\* lines 183-193 without the provenance entry of line 193
SynthGenerateUntagged ==
    /\ pc = "synthetic"
    /\ NeedsFallback(series)
    /\ \E b \in (IF env.synth = "unset" THEN SynthBehaviours ELSE {env.synth}) :
         /\ env' = [env EXCEPT !.synth = b]
         /\ log' = Append(log, Stage("synthetic", <<>>, b))
         /\ IF b = "raise"
            THEN /\ Raise("get_monthly_history:185")
                 /\ UNCHANGED series
            ELSE /\ series' = SynthAnswer(b, dateFrom)
                 /\ pc' = "normalize"
                 /\ UNCHANGED raisedAt
    /\ UNCHANGED <<disease, region, dateFrom, horizon, provenance, warnings, triedRegions,
                   ri, gotLocal, monthly, mean, conf, method, tried, result, liveRet,
                   localRet>>

\* lines 183-193
SynthGenerate ==
    /\ pc = "synthetic"
    /\ NeedsFallback(series)
    /\ \E b \in (IF env.synth = "unset" THEN SynthBehaviours ELSE {env.synth}) :
         /\ env' = [env EXCEPT !.synth = b]
         /\ log' = Append(log, Stage("synthetic", <<>>, b))
         /\ IF b = "raise"
            THEN /\ Raise("get_monthly_history:185")
                 /\ UNCHANGED <<series, provenance>>
            ELSE /\ series' = SynthAnswer(b, dateFrom)
                 /\ provenance' = Append(provenance, Prov(SynthTag, <<>>))
                 /\ pc' = "normalize"
                 /\ UNCHANGED raisedAt
    /\ UNCHANGED <<disease, region, dateFrom, horizon, warnings, triedRegions, ri,
                   gotLocal, monthly, mean, conf, method, tried, result, liveRet,
                   localRet>>

\* line 195: _to_monthly_df(series) raises (pd.to_datetime, line 50)
NormalizeRaises ==
    /\ pc = "normalize"
    /\ series # None
    /\ ToDatetimeRaises(series)
    /\ Raise("_to_monthly_df:50")
    /\ UNCHANGED <<disease, region, dateFrom, horizon, env, series, provenance, warnings,
                   triedRegions, ri, gotLocal, monthly, mean, conf, method, tried,
                   result, liveRet, localRet, log>>

\* lines 195-196: get_monthly_history returns monthly, provenance, warnings
Normalize ==
    /\ pc = "normalize"
    /\ ~(series # None /\ ToDatetimeRaises(series))
    /\ monthly' = _to_monthly_df(series)
    /\ pc' = "resolved"
    /\ UNCHANGED <<raisedAt, disease, region, dateFrom, horizon, env, series, provenance,
                   warnings, triedRegions, ri, gotLocal, mean, conf, method, tried,
                   result, liveRet, localRet, log>>

-----------------------------------------------------------------------------
(* forecast_monthly: forecast.py:271-350                                   *)

\* y = hist_df["value"].astype(float)
y == ValuesOf(monthly)

\* line 284 is false
HistoryPresent ==
    /\ pc = "resolved"
    /\ monthly # <<>>
    /\ pc' = "sarimax"
    /\ UNCHANGED <<raisedAt, disease, region, dateFrom, horizon, env, series, provenance,
                   warnings, triedRegions, ri, gotLocal, monthly, mean, conf, method,
                   tried, result, liveRet, localRet, log>>

\* lines 284-289: the full synthetic path
HistoryEmpty ==
    /\ pc = "resolved"
    /\ monthly = <<>>
    /\ \E b \in (IF env.synth = "unset" THEN SynthBehaviours ELSE {env.synth}) :
         /\ env' = [env EXCEPT !.synth = b]
         /\ log' = Append(log, Stage("synthetic_history", <<>>, b))
         /\ IF b = "raise"
            THEN /\ Raise("forecast_monthly:286")
                 /\ UNCHANGED <<monthly, provenance, warnings>>
            ELSE /\ monthly' = _to_monthly_df(SynthAnswer(b, dateFrom))
                 /\ provenance' = Append(provenance, Prov(SynthEmptyTag, <<>>))
                 /\ warnings' = Append(warnings, EmptyHistoryWarning)
                 /\ pc' = "sarimax"
                 /\ UNCHANGED raisedAt
    /\ UNCHANGED <<disease, region, dateFrom, horizon, series, triedRegions, ri,
                   gotLocal, mean, conf, method, tried, result, liveRet, localRet>>

\* consecutive months: what a date index needs for statsmodels to infer "MS"
MonthsConsecutive(frame) ==
    \A i \in 1..(Len(frame) - 1) : frame[i + 1].m = frame[i].m + 1

\* forecast.py:201-226  _sarimax_forecast raises: statsmodels is missing, the
\* series is too short or flat, or the fit or the forecast fails
SarimaxMinLen == 24
SarimaxApplies(ys) == Len(ys) >= SarimaxMinLen /\ ~_is_flat(ys)
SarimaxFails ==
    /\ pc = "sarimax"
    /\ tried' = Append(tried, "sarimax")
    /\ log' = Append(log, Stage("sarimax", <<>>, "failed"))
    /\ pc' = "naive"
    /\ UNCHANGED <<raisedAt, disease, region, dateFrom, horizon, env, series, provenance,
                   warnings, triedRegions, ri, gotLocal, monthly, mean, conf, method,
                   result, liveRet, localRet>>

\* _sarimax_forecast returns get_forecast(steps).predicted_mean and conf_int:
\* steps rows; indexed by the following month starts when the history index
\* has a monthly frequency, and by integers nobs, nobs + 1, ... when it has none
SarimaxFits ==
    /\ pc = "sarimax"
    /\ SarimaxApplies(y)
    /\ horizon >= 1
    /\ \E level \in SarimaxLevels :
         LET idx == IF MonthsConsecutive(monthly)
                    THEN _make_future_month_index(LastIndex(monthly), horizon)
                    ELSE [i \in 1..horizon |-> [ik |-> "int", m |-> Len(y) + i - 1, d |-> 0]]
             vals == [i \in 1..horizon |-> level]
         IN /\ mean' = SomeMean(MeanRows(idx, vals))
            /\ conf' = ConfRows(vals, SarimaxHalfWidth)
    /\ method' = "sarimax"
    /\ log' = Append(log, Stage("sarimax", <<>>, "ok"))
    /\ pc' = "naive"
    /\ UNCHANGED <<raisedAt, disease, region, dateFrom, horizon, env, series, provenance,
                   warnings, triedRegions, ri, gotLocal, monthly, tried, result,
                   liveRet, localRet>>

\* line 303 is false
NaiveSkip ==
    /\ pc = "naive"
    /\ ~mean.none
    /\ pc' = "moving_avg"
    /\ UNCHANGED <<raisedAt, disease, region, dateFrom, horizon, env, series, provenance,
                   warnings, triedRegions, ri, gotLocal, monthly, mean, conf, method,
                   tried, result, liveRet, localRet, log>>

\* lines 303-305: _naive_seasonal_forecast returns
NaiveOk ==
    /\ pc = "naive"
    /\ mean.none
    /\ NaiveApplies(y)
    /\ ~MakeIndexRaises(horizon, env.negPeriods)
    /\ LET vals == NaiveVals(y, horizon)
       IN /\ mean' = SomeMean(MeanRows(_make_future_month_index(LastIndex(monthly), horizon), vals))
          /\ conf' = ConfRows(vals, NaiveBand(y))
    /\ method' = "naive_seasonal"
    /\ log' = Append(log, Stage("naive", <<>>, "ok"))
    /\ pc' = "moving_avg"
    /\ UNCHANGED <<raisedAt, disease, region, dateFrom, horizon, env, series, provenance,
                   warnings, triedRegions, ri, gotLocal, monthly, tried, result,
                   liveRet, localRet>>

\* lines 306-307 with the failure surfaced as a warning
NaiveFailsWarns ==
    /\ pc = "naive"
    /\ mean.none
    /\ ~NaiveApplies(y) \/ MakeIndexRaises(horizon, env.negPeriods)
    /\ tried' = Append(tried, "naive")
    /\ warnings' = Append(warnings, "naive failed")
    /\ log' = Append(log, Stage("naive", <<>>, "failed"))
    /\ pc' = "moving_avg"
    /\ UNCHANGED <<raisedAt, disease, region, dateFrom, horizon, env, series, provenance,
                   triedRegions, ri, gotLocal, monthly, mean, conf, method,
                   result, liveRet, localRet>>

\* lines 306-307: _naive_seasonal_forecast raises
NaiveFails ==
    /\ pc = "naive"
    /\ mean.none
    /\ ~NaiveApplies(y) \/ MakeIndexRaises(horizon, env.negPeriods)
    /\ tried' = Append(tried, "naive")
    /\ log' = Append(log, Stage("naive", <<>>, "failed"))
    /\ pc' = "moving_avg"
    /\ UNCHANGED <<raisedAt, disease, region, dateFrom, horizon, env, series, provenance,
                   warnings, triedRegions, ri, gotLocal, monthly, mean, conf, method,
                   result, liveRet, localRet>>

\* line 309 is false
MovingSkip ==
    /\ pc = "moving_avg"
    /\ ~mean.none
    /\ pc' = "synthetic_ext"
    /\ UNCHANGED <<raisedAt, disease, region, dateFrom, horizon, env, series, provenance,
                   warnings, triedRegions, ri, gotLocal, monthly, mean, conf, method,
                   tried, result, liveRet, localRet, log>>

\* lines 309-311 with the method under another name
MovingOkRenamed ==
    /\ pc = "moving_avg"
    /\ mean.none
    /\ MovingApplies(y)
    /\ ~MakeIndexRaises(horizon, env.negPeriods)
    /\ LET vals == MovingVals(y, horizon)
       IN /\ mean' = SomeMean(MeanRows(_make_future_month_index(LastIndex(monthly), horizon), vals))
          /\ conf' = ConfRows(vals, MovingBand(y))
    /\ method' = "moving_average"
    /\ log' = Append(log, Stage("moving_avg", <<>>, "ok"))
    /\ pc' = "synthetic_ext"
    /\ UNCHANGED <<raisedAt, disease, region, dateFrom, horizon, env, series, provenance,
                   warnings, triedRegions, ri, gotLocal, monthly, tried, result,
                   liveRet, localRet>>

\* lines 309-311: _moving_avg_forecast returns
MovingOk ==
    /\ pc = "moving_avg"
    /\ mean.none
    /\ MovingApplies(y)
    /\ ~MakeIndexRaises(horizon, env.negPeriods)
    /\ LET vals == MovingVals(y, horizon)
       IN /\ mean' = SomeMean(MeanRows(_make_future_month_index(LastIndex(monthly), horizon), vals))
          /\ conf' = ConfRows(vals, MovingBand(y))
    /\ method' = "moving_avg"
    /\ log' = Append(log, Stage("moving_avg", <<>>, "ok"))
    /\ pc' = "synthetic_ext"
    /\ UNCHANGED <<raisedAt, disease, region, dateFrom, horizon, env, series, provenance,
                   warnings, triedRegions, ri, gotLocal, monthly, tried, result,
                   liveRet, localRet>>

\* lines 312-313: _moving_avg_forecast raises
MovingFails ==
    /\ pc = "moving_avg"
    /\ mean.none
    /\ ~MovingApplies(y) \/ MakeIndexRaises(horizon, env.negPeriods)
    /\ tried' = Append(tried, "moving_avg")
    /\ log' = Append(log, Stage("moving_avg", <<>>, "failed"))
    /\ pc' = "synthetic_ext"
    /\ UNCHANGED <<raisedAt, disease, region, dateFrom, horizon, env, series, provenance,
                   warnings, triedRegions, ri, gotLocal, monthly, mean, conf, method,
                   result, liveRet, localRet>>

\* line 315 is false
SynthExtSkip ==
    /\ pc = "synthetic_ext"
    /\ ~mean.none
    /\ pc' = "format"
    /\ UNCHANGED <<raisedAt, disease, region, dateFrom, horizon, env, series, provenance,
                   warnings, triedRegions, ri, gotLocal, monthly, mean, conf, method,
                   tried, result, liveRet, localRet, log>>

\* line 324 raises: pd.Timestamp(date_from) of an unparsable date_from when
\* the history is empty, or pd.date_range with periods < 0
SynthExtIndexRaises ==
    \/ (Len(y) = 0 /\ dateFrom.dk # "ok")
    \/ MakeIndexRaises(horizon, env.negPeriods)
SynthExtRaises ==
    /\ pc = "synthetic_ext"
    /\ mean.none
    /\ SynthExtIndexRaises
    /\ Raise("forecast_monthly:324")
    /\ log' = Append(log, Stage("synthetic_ext", <<>>, "raised"))
    /\ UNCHANGED <<disease, region, dateFrom, horizon, env, series, provenance, warnings,
                   triedRegions, ri, gotLocal, monthly, mean, conf, method, tried,
                   result, liveRet, localRet>>

\* lines 315-329: the synthetic extension
SynthExtOk ==
    /\ pc = "synthetic_ext"
    /\ mean.none
    /\ ~SynthExtIndexRaises
    /\ LET last == IF Len(y) > 0 THEN LastIndex(monthly)
                   ELSE [m |-> dateFrom.m, d |-> dateFrom.d]
           vals == SynthVals(y, horizon)
       IN /\ mean' = SomeMean(MeanRows(_make_future_month_index(last, horizon), vals))
          /\ conf' = ConfRows(vals, SynthBand(y))
    /\ method' = "synthetic"
    /\ warnings' = Append(warnings, SynthExtWarning)
    /\ log' = Append(log, Stage("synthetic_ext", <<>>, "ok"))
    /\ pc' = "format"
    /\ UNCHANGED <<raisedAt, disease, region, dateFrom, horizon, env, series, provenance,
                   triedRegions, ri, gotLocal, monthly, tried, result, liveRet, localRet>>

\* line 338: d.strftime on an integer index label raises AttributeError
FormatRaises ==
    /\ pc = "format"
    /\ \E i \in DOMAIN mean.rows : mean.rows[i].ik # "ts"
    /\ Raise("forecast_monthly:338")
    /\ UNCHANGED <<disease, region, dateFrom, horizon, env, series, provenance, warnings,
                   triedRegions, ri, gotLocal, monthly, mean, conf, method, tried,
                   result, liveRet, localRet, log>>

\* lines 332-350: the records of the result
HistoryRecords(frame) ==
    [i \in DOMAIN frame |-> [date |-> Strftime(frame[i]), value |-> frame[i].value]]
ForecastRecordsSkipFirst(mn, cf) ==
    [i \in 1..(Len(mn) - 1) |-> [date |-> Strftime(mn[i + 1]),
                                 yhat |-> mn[i + 1].yhat,
                                 yhat_lower |-> Clamp(cf[i + 1].lo),
                                 yhat_upper |-> Clamp(cf[i + 1].hi)]]
ForecastRecords(mn, cf) ==
    [i \in DOMAIN mn |-> [date |-> Strftime(mn[i]),
                          yhat |-> mn[i].yhat,
                          yhat_lower |-> Clamp(cf[i].lo),
                          yhat_upper |-> Clamp(cf[i].hi)]]
Format ==
    /\ pc = "format"
    /\ \A i \in DOMAIN mean.rows : mean.rows[i].ik = "ts"
    /\ result' = [history |-> HistoryRecords(monthly),
                  forecast |-> ForecastRecords(mean.rows, conf),
                  method |-> method,
                  provenance |-> provenance,
                  warnings |-> warnings]
    /\ pc' = "done"
    /\ UNCHANGED <<raisedAt, disease, region, dateFrom, horizon, env, series, provenance,
                   warnings, triedRegions, ri, gotLocal, monthly, mean, conf, method,
                   tried, liveRet, localRet, log>>

Next ==
    \/ Call
    \/ LiveFetch \/ LiveSkip
    \/ LocalGuardRaises \/ LocalSkip \/ LocalBegin \/ LocalTry \/ LocalExhausted
    \/ SynthSkip \/ SynthGenerate
    \/ NormalizeRaises \/ Normalize
    \/ HistoryPresent \/ HistoryEmpty
    \/ SarimaxFails \/ SarimaxFits
    \/ NaiveSkip \/ NaiveOk \/ NaiveFails
    \/ MovingSkip \/ MovingOk \/ MovingFails
    \/ SynthExtSkip \/ SynthExtRaises \/ SynthExtOk
    \/ FormatRaises \/ Format

Spec == Init /\ [][Next]_vars

-----------------------------------------------------------------------------
(* The Monthly Series Normalizer on its own: _to_monthly_df applied to     *)
(* drawn inputs, and once more to its own output                           *)

MaxRows == 2

\* the rows of a monthly frame as a series list again
AsSeries(frame) == [i \in DOMAIN frame |-> Row(frame[i].m, frame[i].d, frame[i].value)]

SmallRows ==
    { [m |-> m, d |-> d, dk |-> "ok", v |-> v, vk |-> vk] :
        m \in {0, 1}, d \in {1, 15}, v \in {0 - 1, 2}, vk \in {"num", "none"} }
RECURSIVE SeqsUpTo(_, _)
SeqsUpTo(S, n) ==
    IF n = 0 THEN {<<>>}
    ELSE LET shorter == SeqsUpTo(S, n - 1)
         IN shorter \cup {Append(q, x) : q \in shorter, x \in S}

NormInputs ==
    SeqsUpTo(SmallRows, MaxRows)
    \cup { DailyRows(start, n, f) :
             start \in 0..MaxExtra, n \in 1..2,
             f \in { [d \in 1..31 |-> 10], [d \in 1..31 |-> d], [d \in 1..31 |-> 3 - (d % 4)] } }
    \cup { DailyRows(0, 1, [d \in 1..31 |-> 1]) \o DailyRows(2, 1, [d \in 1..31 |-> 2]),
           DailyRows(11, 1, [d \in 1..31 |-> d]) \o DailyRows(1, 1, [d \in 1..31 |-> 2]),
           [i \in 1..40 |-> IF i % 7 = 0 THEN [Row(i % 3, (i % 9) + 1, i) EXCEPT !.vk = "str"]
                            ELSE Row(i % 3, (i % 9) + 1, i)],
           [i \in 1..30 |-> Row(i % 2, (i % 5) + 1, i)] }
    \cup { MonthlyRows(0, Ramp(12, 0, 10)),
           MonthlyRows(10, Ramp(30, 0, 1)),
           MonthlyRows(0, Ramp(12, 0, 1)) \o MonthlyRows(13, Ramp(18, 12, 1)),
           <<Row(3, 5, 1), Row(1, 9, 2), Row(3, 1, 4), [Row(2, 1, 6) EXCEPT !.vk = "str"]>>,
           <<Row(0, 1, 4), [Row(1, 1, 6) EXCEPT !.dk = "bad"]>>,
           <<[Row(0, 1, 4) EXCEPT !.dk = "none"], Row(1, 1, 6)>> }
    \cup LocalSeries \cup LiveSeries

InitNorm ==
    /\ pc = "norm_in"
    /\ series \in NormInputs
    /\ raisedAt = ""
    /\ disease = <<>>
    /\ region = <<>>
    /\ dateFrom = [m |-> 0, d |-> 1, dk |-> "ok"]
    /\ horizon = 0
    /\ env = [negPeriods |-> "empty", synth |-> "unset"]
    /\ provenance = <<>>
    /\ warnings = <<>>
    /\ triedRegions = <<>>
    /\ ri = 0
    /\ gotLocal = FALSE
    /\ monthly = <<>>
    /\ mean = NoneMean
    /\ conf = <<>>
    /\ method = ""
    /\ tried = <<>>
    /\ result = NoResult
    /\ liveRet = NotCalled
    /\ localRet = NotCalled
    /\ log = <<>>

\* _to_monthly_df(series) returns
NormApply ==
    /\ pc = "norm_in"
    /\ ~(series # None /\ ToDatetimeRaises(series))
    /\ monthly' = _to_monthly_df(series)
    /\ pc' = "norm_out"
    /\ UNCHANGED <<raisedAt, disease, region, dateFrom, horizon, env, series, provenance,
                   warnings, triedRegions, ri, gotLocal, mean, conf, method, tried,
                   result, liveRet, localRet, log>>

\* _to_monthly_df(series) raises
NormRaises ==
    /\ pc = "norm_in"
    /\ series # None
    /\ ToDatetimeRaises(series)
    /\ Raise("_to_monthly_df:50")
    /\ UNCHANGED <<disease, region, dateFrom, horizon, env, series, provenance, warnings,
                   triedRegions, ri, gotLocal, monthly, mean, conf, method, tried,
                   result, liveRet, localRet, log>>

\* the output of a normalization is normalized again
NormFeedback ==
    /\ pc = "norm_out"
    /\ log = <<>>
    /\ series' = AsSeries(monthly)
    /\ log' = <<Stage("normalize_again", <<>>, "fed")>>
    /\ pc' = "norm_in"
    /\ UNCHANGED <<raisedAt, disease, region, dateFrom, horizon, env, provenance,
                   warnings, triedRegions, ri, gotLocal, monthly, mean, conf, method,
                   tried, result, liveRet, localRet>>

NextNorm == NormApply \/ NormRaises \/ NormFeedback

SpecNorm == InitNorm /\ [][NextNorm]_vars

-----------------------------------------------------------------------------
(* _region_candidates on its own: forecast.py:90-130                       *)

\* the argument region: a text, bare or padded with blanks (None and "" alike:
\* line 95 reads region or "")
RegionInputs ==
    LET bases == { <<"S","r","i"," ","L","a","n","k","a">>, <<"u","s","a">>,
              <<"U","S","A">>, <<"U","s","a">>, <<"l","k","a">>, <<"L","K","A">>,
              <<"w","o","r","l","d">>, <<"W","o","r","l","d">>,
              <<"g","l","o","b","a","l">>,
              <<"u","n","i","t","e","d"," ","s","t","a","t","e","s">>,
              <<"I","n","d","i","a">>, <<"x","y","z">>, <<"W","L","D">>,
              <<"i","n","d">>, <<"a"," ","b">>, <<"a","b","1">>, <<"x","y">>, <<>> }
    IN UNION { { b, <<" ">> \o b, b \o <<" ">>, <<" ", " ">> \o b \o <<" ">> } : b \in bases }

InitRegion ==
    /\ pc = "cand_in"
    /\ region \in RegionInputs
    /\ raisedAt = ""
    /\ disease = <<>>
    /\ dateFrom = [m |-> 0, d |-> 1, dk |-> "ok"]
    /\ horizon = 0
    /\ env = [negPeriods |-> "empty", synth |-> "unset"]
    /\ series = None
    /\ provenance = <<>>
    /\ warnings = <<>>
    /\ triedRegions = <<>>
    /\ ri = 0
    /\ gotLocal = FALSE
    /\ monthly = <<>>
    /\ mean = NoneMean
    /\ conf = <<>>
    /\ method = ""
    /\ tried = <<>>
    /\ result = NoResult
    /\ liveRet = NotCalled
    /\ localRet = NotCalled
    /\ log = <<>>

\* _region_candidates(region) returns; to_iso3 answers or raises (lines 110-115)
CandApply ==
    /\ pc = "cand_in"
    /\ \E isoRaises \in BOOLEAN :
         /\ triedRegions' = _region_candidates(region, isoRaises)
         /\ log' = <<Stage("to_iso3", StrStrip(region),
                           IF isoRaises THEN "raise" ELSE "ok")>>
    /\ pc' = "cand_out"
    /\ UNCHANGED <<raisedAt, disease, region, dateFrom, horizon, env, series,
                   provenance, warnings, ri, gotLocal, monthly, mean, conf, method,
                   tried, result, liveRet, localRet>>

NextRegion == CandApply

SpecRegion == InitRegion /\ [][NextRegion]_vars

-----------------------------------------------------------------------------
(* The outbound URL allowlist: security_agent.py:26-131                    *)

\* security_agent.py:26
ALLOWED_SCHEMES == { <<"h","t","t","p","s">> }

\* lines 30-45: ALLOW_DOMAINS after the import; entries: SEC_ALLOW_DOMAINS
\* split at the commas
ALLOW_DOMAINS(entries) ==
    LET given == { entries[i] : i \in DOMAIN entries }
    IN  { <<"w","h","o",".","i","n","t">>,
        <<"o","u","r","w","o","r","l","d","i","n","d","a","t","a",".","o","r","g">>,
        <<"w","o","r","l","d","b","a","n","k",".","o","r","g">>,
        <<"d","i","s","e","a","s","e",".","s","h">>,
        <<"c","d","c",".","g","o","v">>, <<"n","i","h",".","g","o","v">> }
        \cup { StrLower(StrStrip(d)) : d \in { e \in given : StrStrip(e) # <<>> } }

\* lines 49-63: ALLOW_WILDCARD_SUFFIXES after the import; entries:
\* SEC_ALLOW_WILDCARDS split at the commas
ALLOW_WILDCARD_SUFFIXES(entries) ==
    LET given == { entries[i] : i \in DOMAIN entries }
        dotted(e) == StrStrip(e) # <<>> /\ Head(StrStrip(e)) = "."
    IN  { <<".","w","h","o",".","i","n","t">>,
        <<".","o","u","r","w","o","r","l","d","i","n","d","a","t","a",".","o","r","g">>,
        <<".","w","o","r","l","d","b","a","n","k",".","o","r","g">>,
        <<".","c","d","c",".","g","o","v">>, <<".","n","i","h",".","g","o","v">> }
        \cup { StrLower(StrStrip(s)) : s \in { e \in given : dotted(e) } }

\* ipaddress.ip_address(host): an IPv4Address for four octets (1 to 3 digits,
\* no leading zero, at most 255) between dots, an IPv6Address for the IPv6
\* literals used here (eight 16-bit groups), version 0 for ValueError
ip_address(host) ==
    LET digits == <<"0","1","2","3","4","5","6","7","8","9">>
        isDigit(c) == \E i \in DOMAIN digits : digits[i] = c
        val(c) == (CHOOSE i \in DOMAIN digits : digits[i] = c) - 1
        dots == { i \in DOMAIN host : host[i] = "." }
        at == CHOOSE f \in [1..3 -> dots] : f[1] < f[2] /\ f[2] < f[3]
        cut == <<0, at[1], at[2], at[3], Len(host) + 1>>
        part(k) == SubSeq(host, cut[k] + 1, cut[k + 1] - 1)
        dec(t) == IF Len(t) = 1 THEN val(t[1])
                  ELSE IF Len(t) = 2 THEN 10 * val(t[1]) + val(t[2])
                  ELSE 100 * val(t[1]) + 10 * val(t[2]) + val(t[3])
        isOctet(t) == /\ Len(t) \in 1..3
                      /\ \A i \in DOMAIN t : isDigit(t[i])
                      /\ Len(t) > 1 => t[1] # "0"
                      /\ dec(t) <= 255
        v6 == CASE host = <<":",":","1">> -> <<0, 0, 0, 0, 0, 0, 0, 1>>
                [] host = <<"f","c","0","0",":",":","1">> -> <<64512, 0, 0, 0, 0, 0, 0, 1>>
                [] host = <<"f","d","1","2",":",":","5">> -> <<64786, 0, 0, 0, 0, 0, 0, 5>>
                [] host = <<"f","e","8","0",":",":","1">> -> <<65152, 0, 0, 0, 0, 0, 0, 1>>
                [] host = <<"2","0","0","1",":","d","b","8",":",":","1">> -> <<8193, 3512, 0, 0, 0, 0, 0, 1>>
                [] OTHER -> <<>>
    IN IF Cardinality(dots) = 3 /\ \A k \in 1..4 : isOctet(part(k))
       THEN [version |-> 4, width |-> 8, groups |-> [k \in 1..4 |-> dec(part(k))]]
       ELSE IF v6 # <<>>
            THEN [version |-> 6, width |-> 16, groups |-> v6]
            ELSE [version |-> 0, width |-> 0, groups |-> <<>>]

\* ip in net: same version and the first prefixlen bits agree
InNetwork(ip, net) ==
    /\ ip.version = net.version
    /\ \A i \in DOMAIN ip.groups :
         LET rest == net.prefixlen - ip.width * (i - 1)
             bits == IF rest <= 0 THEN 0 ELSE IF rest >= ip.width THEN ip.width ELSE rest
             drop == 2 ^ (ip.width - bits)
         IN ip.groups[i] \div drop = net.groups[i] \div drop

\* security_agent.py:66-73
PRIVATE_NETS ==
    << [version |-> 4, groups |-> <<127, 0, 0, 0>>, prefixlen |-> 8],
       [version |-> 4, groups |-> <<10, 0, 0, 0>>, prefixlen |-> 8],
       [version |-> 4, groups |-> <<172, 16, 0, 0>>, prefixlen |-> 12],
       [version |-> 4, groups |-> <<192, 168, 0, 0>>, prefixlen |-> 16],
       [version |-> 6, groups |-> <<0, 0, 0, 0, 0, 0, 0, 1>>, prefixlen |-> 128],
       [version |-> 6, groups |-> <<64512, 0, 0, 0, 0, 0, 0, 0>>, prefixlen |-> 7] >>

\* only the name localhost counts as local
LocalhostOnly(host) ==
    host = <<"l","o","c","a","l","h","o","s","t">>
\* _is_local_or_private_host(host): lines 75-86; ip.is_link_local is
\* membership of 169.254.0.0/16 or fe80::/10
_is_local_or_private_host(host) ==
    \/ host = <<"l","o","c","a","l","h","o","s","t">>
    \/ LET ip == ip_address(host)
           linkLocal == { [version |-> 4, groups |-> <<169, 254, 0, 0>>, prefixlen |-> 16],
                          [version |-> 6, groups |-> <<65152, 0, 0, 0, 0, 0, 0, 0>>,
                           prefixlen |-> 10] }
       IN /\ ip.version # 0
          /\ \/ \E n \in DOMAIN PRIVATE_NETS : InNetwork(ip, PRIVATE_NETS[n])
             \/ \E net \in linkLocal : InNetwork(ip, net)

\* _host_allowed(host): lines 88-96
_host_allowed(host, domains, suffixes) ==
    \/ host \in domains
    \/ \E sfx \in suffixes :
         Len(sfx) <= Len(host) /\ SubSeq(host, Len(host) - Len(sfx) + 1, Len(host)) = sfx

\* urllib.parse.urlparse of a URL given by its scheme and the host of its
\* authority as written: scheme and hostname come back in lower case
urlparse(url) == [scheme |-> StrLower(url.scheme), hostname |-> StrLower(url.host)]

\* allow_outbound_url(url): lines 98-131
allow_outbound_url(url, domains, suffixes) ==
    IF url.kind = "unparsable" THEN [ok |-> FALSE, reason |-> "url-parse-error"]
    ELSE LET p == urlparse(url)
             scheme == StrLower(p.scheme)
             host == StrStrip(StrLower(p.hostname))
         IN IF scheme \notin ALLOWED_SCHEMES
            THEN [ok |-> FALSE, reason |-> "scheme-not-allowed"]
            ELSE IF host = <<>>
            THEN [ok |-> FALSE, reason |-> "no-host"]
            ELSE IF _is_local_or_private_host(host)
            THEN [ok |-> FALSE, reason |-> "local-or-private-host"]
            ELSE IF ~_host_allowed(host, domains, suffixes)
            THEN [ok |-> FALSE, reason |-> "domain-not-allowlisted"]
            ELSE [ok |-> TRUE, reason |-> "ok"]

\* the URLs of the model: scheme and host as written, and a text urlparse
\* rejects
Urls ==
    LET schemes == { <<"h","t","t","p","s">>, <<"H","T","T","P","S">>, <<"h","t","t","p">>,
                       <<"f","t","p">>, <<>> }
        hosts ==
          { <<"w","h","o",".","i","n","t">>, <<"W","H","O",".","i","n","t">>,
            <<" ","w","h","o",".","i","n","t">>,
            <<"d","a","t","a",".","w","h","o",".","i","n","t">>,
            <<"e","v","i","l","w","h","o",".","i","n","t">>,
            <<"w","h","o",".","i","n","t",".","e","v","i","l",".","c","o","m">>,
            <<"c","d","c",".","g","o","v">>,
            <<"d","i","s","e","a","s","e",".","s","h">>,
            <<"a","p","i",".","d","i","s","e","a","s","e",".","s","h">>,
            <<"e","x","a","m","p","l","e",".","c","o","m">>,
            <<"a","p","i",".","e","x","a","m","p","l","e",".","c","o","m">>,
            <<"i","n","t","r","a","n","e","t",".","l","o","c","a","l">>,
            <<"l","o","c","a","l","h","o","s","t">>,
            <<"L","O","C","A","L","H","O","S","T">>,
            <<"1","2","7",".","0",".","0",".","1">>,
            <<"1","0",".","0",".","0",".","5">>,
            <<"1","7","2",".","1","6",".","0",".","1">>,
            <<"1","7","2",".","3","1",".","9",".","9">>,
            <<"1","7","2",".","3","2",".","0",".","1">>,
            <<"1","9","2",".","1","6","8",".","1",".","1">>,
            <<"1","6","9",".","2","5","4",".","1","6","9",".","2","5","4">>,
            <<"8",".","8",".","8",".","8">>, <<"2","5","6",".","1",".","1",".","1">>,
            <<"1",".","2",".","3">>, <<":",":","1">>,
            <<"f","c","0","0",":",":","1">>, <<"f","d","1","2",":",":","5">>,
            <<"f","e","8","0",":",":","1">>,
            <<"2","0","0","1",":","d","b","8",":",":","1">>, <<>> }
    IN { [kind |-> "url", scheme |-> sch, host |-> h] : sch \in schemes, h \in hosts }
       \cup { [kind |-> "unparsable", scheme |-> <<>>, host |-> <<>>] }

\* env: SEC_ALLOW_DOMAINS and SEC_ALLOW_WILDCARDS, split at the commas
InitUrl ==
    /\ pc = "url_idle"
    /\ env \in { [domains |-> <<>>, wildcards |-> <<>>],
                 [domains |-> << <<"l","o","c","a","l","h","o","s","t">>,
                          <<"1","0",".","0",".","0",".","5">>,
                          <<" ","E","x","a","m","p","l","e",".","c","o","m"," ">>, <<>> >>,
                  wildcards |-> << <<".","0",".","0",".","1">>,
                            <<".","e","x","a","m","p","l","e",".","c","o","m">>,
                            <<"i","n","t","r","a","n","e","t",".","l","o","c","a","l">> >>],
                 [domains |-> << <<":",":","1">>,
                          <<"1","6","9",".","2","5","4",".","1","6","9",".","2","5","4">>,
                          <<"f","d","1","2",":",":","5">> >>,
                  wildcards |-> << <<".","1","6","8",".","1",".","1">>, <<" ",".","L","o","c","a","l">> >>],
                 [domains |-> << <<" ">>, <<"8",".","8",".","8",".","8">>,
                          <<"1","7","2",".","3","1",".","9",".","9">>,
                          <<"1","7","2",".","3","2",".","0",".","1">> >>,
                  wildcards |-> <<>>] }
    /\ raisedAt = ""
    /\ disease = <<>>
    /\ region = <<>>
    /\ dateFrom = [m |-> 0, d |-> 1, dk |-> "ok"]
    /\ horizon = 0
    /\ series = None
    /\ provenance = <<>>
    /\ warnings = <<>>
    /\ triedRegions = <<>>
    /\ ri = 0
    /\ gotLocal = FALSE
    /\ monthly = <<>>
    /\ mean = NoneMean
    /\ conf = <<>>
    /\ method = ""
    /\ tried = <<>>
    /\ result = NoResult
    /\ liveRet = NotCalled
    /\ localRet = NotCalled
    /\ log = <<>>

\* allow_outbound_url(url) is called and returns (ok, reason)
AllowOutboundUrl ==
    /\ pc = "url_idle"
    /\ \E url \in Urls :
         LET answer == allow_outbound_url(url, ALLOW_DOMAINS(env.domains),
                                          ALLOW_WILDCARD_SUFFIXES(env.wildcards))
         IN /\ result' = answer
            /\ log' = <<Stage("allow_outbound_url", url, answer.reason)>>
    /\ pc' = "url_done"
    /\ UNCHANGED <<raisedAt, disease, region, dateFrom, horizon, env, series,
                   provenance, warnings, triedRegions, ri, gotLocal, monthly, mean,
                   conf, method, tried, liveRet, localRet>>

NextUrl == AllowOutboundUrl

SpecUrl == InitUrl /\ [][NextUrl]_vars

-----------------------------------------------------------------------------
(* Link filtering of /route/search: orchestrator/main.py:565-648           *)

MaxItems == 3

\* it.get("url") of an item without a URL (None or "": both fail the truth
\* tests of lines 623 and 633)
NoUrl == ""
\* payload.get("items", []) of the retrieval agent's answer
ItemLists ==
    LET urls == {"https://www.who.int/dengue", "http://10.0.0.5/admin",
                 "https://evil.example/offer", NoUrl}
    IN UNION { [1..n -> { [title |-> "link", url |-> u] : u \in urls }] : n \in 0..MaxItems }

\* line 623: urls = [it.get("url") for it in items if it.get("url")]
UrlsOf(items) ==
    LET withUrl == SelectSeq(items, LAMBDA it : it.url # NoUrl)
    IN [i \in DOMAIN withUrl |-> withUrl[i].url]

\* what the POST to {SEC_BASE}/check_url can bring as rows: a verdict each
\* for some of the URLs asked about, in the order asked
CheckAnswers(urls) ==
    LET rowsOf(verdict) ==
          LET asked == SelectSeq([i \in DOMAIN urls |-> [url |-> urls[i], v |-> verdict[urls[i]]]],
                                 LAMBDA a : a.v # "absent")
          IN [i \in DOMAIN asked |->
                IF asked[i].v = "ok"
                THEN [url |-> asked[i].url, ok |-> TRUE, reason |-> "ok"]
                ELSE [url |-> asked[i].url, ok |-> FALSE, reason |-> "domain-not-allowlisted"]]
    IN { [kind |-> "rows", rows |-> rowsOf(verdict)] :
           verdict \in [{ urls[i] : i \in DOMAIN urls } -> {"ok", "rejected", "absent"}] }

\* _filter_links_via_security(urls): lines 565-598; answer: the rows, or the
\* way the request failed
_filter_links_via_security(urls, secBase, answer) ==
    LET asked == { urls[i] : i \in DOMAIN urls }
        allOk(reason) == [u \in asked |-> [ok |-> TRUE, reason |-> reason]]
    IN IF secBase = "" \/ urls = <<>>
       THEN allOk("security-disabled")
       ELSE IF answer.kind # "rows"
       THEN allOk("security-unreachable")
       ELSE LET rows == answer.rows
                keys == { rows[i].url : i \in DOMAIN rows } \cup asked
                last(u) == rows[CHOOSE i \in DOMAIN rows :
                                   /\ rows[i].url = u
                                   /\ \A j \in DOMAIN rows : rows[j].url = u => j <= i]
            IN [u \in keys |->
                  IF \E i \in DOMAIN rows : rows[i].url = u
                  THEN [ok |-> last(u).ok, reason |-> last(u).reason]
                  ELSE [ok |-> FALSE, reason |-> "no-decision"]]

\* lines 629-640: the items kept, each with its decision attached
FilteredItems(items, decisions) ==
    LET dec(u) == IF u \in DOMAIN decisions THEN decisions[u]
                  ELSE [ok |-> FALSE, reason |-> "no-decision"]
        kept == SelectSeq(items, LAMBDA it : it.url # NoUrl /\ dec(it.url).ok)
    IN [i \in DOMAIN kept |->
          [title |-> kept[i].title, url |-> kept[i].url,
           ok |-> TRUE, block_reason |-> dec(kept[i].url).reason]]

\* lines 641-648: the payload returned
SearchPayload(items, decisions) ==
    [items |-> FilteredItems(items, decisions),
     security |->
        [checked |-> Len(UrlsOf(items)),
         blocked |-> Cardinality({ u \in DOMAIN decisions : ~decisions[u].ok }),
         mode |-> IF \A u \in DOMAIN decisions : decisions[u].reason = "security-unreachable"
                  THEN "fail-open" ELSE "enforced"]]

\* env.SEC_BASE (main.py:31): the address of the security agent, "" when
\* none is configured
InitSearch ==
    /\ pc = "search_idle"
    /\ env \in { [SEC_BASE |-> b] : b \in {"", "http://127.0.0.1:8090"} }
    /\ raisedAt = ""
    /\ disease = <<>>
    /\ region = <<>>
    /\ dateFrom = [m |-> 0, d |-> 1, dk |-> "ok"]
    /\ horizon = 0
    /\ series = None
    /\ provenance = <<>>
    /\ warnings = <<>>
    /\ triedRegions = <<>>
    /\ ri = 0
    /\ gotLocal = FALSE
    /\ monthly = <<>>
    /\ mean = NoneMean
    /\ conf = <<>>
    /\ method = ""
    /\ tried = <<>>
    /\ result = NoResult
    /\ liveRet = NotCalled
    /\ localRet = NotCalled
    /\ log = <<>>

\* route_search, lines 607-621: the retrieval agent answers with items
RetrievalAnswers ==
    /\ pc = "search_idle"
    /\ \E items \in ItemLists : log' = <<Stage("retrieval", "", items)>>
    /\ pc' = "check_urls"
    /\ UNCHANGED <<raisedAt, result>>
    /\ UNCHANGED <<disease, region, dateFrom, horizon, env, series, provenance,
                   warnings, triedRegions, ri, gotLocal, monthly, mean, conf, method,
                   tried, liveRet, localRet>>

\* route_search, lines 618-619: the retrieval agent answers with an error status
RetrievalRefuses ==
    /\ pc = "search_idle"
    /\ Raise("route_search:619")
    /\ UNCHANGED <<result, log>>
    /\ UNCHANGED <<disease, region, dateFrom, horizon, env, series, provenance,
                   warnings, triedRegions, ri, gotLocal, monthly, mean, conf, method,
                   tried, liveRet, localRet>>

\* the rest of route_search (lines 623-648) with the decisions it got
SearchFinish(answer) ==
    LET items == log[1].out
        urls == UrlsOf(items)
        decisions == _filter_links_via_security(urls, env.SEC_BASE, answer)
    IN /\ result' = SearchPayload(items, decisions)
       /\ log' = Append(log, Stage("check_url", urls, answer))
       /\ pc' = "search_done"
       /\ UNCHANGED raisedAt
       /\ UNCHANGED <<disease, region, dateFrom, horizon, env, series, provenance,
                   warnings, triedRegions, ri, gotLocal, monthly, mean, conf, method,
                   tried, liveRet, localRet>>

\* no security agent configured, or nothing to check: no request is made
SecurityDisabled ==
    /\ pc = "check_urls"
    /\ env.SEC_BASE = "" \/ UrlsOf(log[1].out) = <<>>
    /\ SearchFinish([kind |-> "not asked", rows |-> <<>>])

\* the security agent answers with rows
SecurityAnswers ==
    /\ pc = "check_urls"
    /\ env.SEC_BASE # "" /\ UrlsOf(log[1].out) # <<>>
    /\ \E answer \in CheckAnswers(UrlsOf(log[1].out)) : SearchFinish(answer)

\* the request to the security agent fails (line 596: except Exception): no
\* connection, a timeout, an error status such as the 401 of
\* security_agent/main.py:17, a body that is not JSON
SecurityFails ==
    /\ pc = "check_urls"
    /\ env.SEC_BASE # "" /\ UrlsOf(log[1].out) # <<>>
    /\ \E kind \in {"connect-error", "timeout", "status-401", "status-500", "not-json"} :
         SearchFinish([kind |-> kind, rows |-> <<>>])

NextSearch ==
    \/ RetrievalAnswers
    \/ RetrievalRefuses
    \/ SecurityDisabled
    \/ SecurityAnswers
    \/ SecurityFails

SpecSearch == InitSearch /\ [][NextSearch]_vars

-----------------------------------------------------------------------------
(* Properties                                                              *)

Returned == pc = "done"
SeqMember(x, xs) == \E i \in DOMAIN xs : xs[i] = x
HasTag(tag, prov) == \E i \in DOMAIN prov : prov[i].tag = tag

\* C1: forecast_monthly never raises, whatever the inputs and whatever the
\* live, local and synthetic collaborators do: no call ends in an exception.
C1_ForecastNeverRaises == pc # "raised"

\* C2 (as stated): for every call that returns, the number of forecast points
\* equals the requested horizon_months.
C2_CountEqualsHorizon == Returned => Len(result.forecast) = horizon

\* C2 (amended): the number of forecast points of every returned result is
\* horizon_months when horizon_months >= 0, and 0 when it is negative.
C2_CountEqualsNonNegativeHorizon ==
    Returned => Len(result.forecast) = (IF horizon >= 0 THEN horizon ELSE 0)

C2_Witness ==
    /\ Returned
    /\ horizon = MaxHorizon
    /\ result.method = "naive_seasonal"
    /\ Len(result.forecast) = MaxHorizon

\* C3: every forecast point of a returned result has
\* yhat_lower <= yhat <= yhat_upper and yhat_lower >= 0.
C3_BoundsOrdered ==
    Returned =>
        \A i \in DOMAIN result.forecast :
            LET p == result.forecast[i]
            IN p.yhat_lower <= p.yhat /\ p.yhat <= p.yhat_upper /\ p.yhat_lower >= 0

\* the date one calendar month after a formatted month-start date
NextMonthDate(date) ==
    IF date.month = 12 THEN [year |-> date.year + 1, month |-> 1, day |-> 1]
    ELSE [year |-> date.year, month |-> date.month + 1, day |-> 1]

\* C4: the forecast dates of a returned result are month starts, each the
\* calendar month after the one before it, and the first is the month after
\* the last month of the returned history.
C4_ForecastDatesConsecutive ==
    Returned =>
        LET f == result.forecast
            h == result.history
        IN /\ \A i \in DOMAIN f : f[i].date.day = 1
           /\ \A i \in 1..(Len(f) - 1) : f[i + 1].date = NextMonthDate(f[i].date)
           /\ (f # <<>> /\ h # <<>>) => f[1].date = NextMonthDate(h[Len(h)].date)

C4_Witness ==
    /\ Returned
    /\ result.history # <<>>
    /\ Len(result.forecast) = MaxHorizon
    /\ result.method = "sarimax"
    /\ \E i \in DOMAIN result.forecast : result.forecast[i].date.month = 1

\* the live adapter returned no data during this call (or was not asked)
LiveNoData == liveRet.kind \in {"none", "not called"}
\* the local adapter was asked and returned None for every key
LocalNoData ==
    /\ \E i \in DOMAIN log : log[i].stage = "local"
    /\ \A i \in DOMAIN log : log[i].stage = "local" => log[i].out = "none"
DegradationCase == Returned /\ LiveNoData /\ LocalNoData /\ horizon = 6

\* C5 (as stated): with no live and no local data, forecast_monthly with
\* horizon_months = 6 returns method "synthetic", 6 forecast points and a
\* warnings list that mentions the empty history.
C5_DegradationFloorSynthetic ==
    DegradationCase =>
        /\ result.method = "synthetic"
        /\ Len(result.forecast) = 6
        /\ SeqMember(EmptyHistoryWarning, result.warnings)

\* the degradation case with the generator supplying its 12-point baseline
BaselineCase == LiveNoData /\ LocalNoData /\ horizon = 6 /\ env.synth = "ok"

\* C5 (amended): with no live and no local data, forecast_monthly with
\* horizon_months = 6 does not raise and returns 6 forecast points, a
\* provenance ending in the synthetic-baseline entry and a warnings list
\* holding the warning that no live or local data was usable; the method is
\* "naive_seasonal", the selector's choice for the 12-point synthetic
\* history, and no warning mentions an empty history.
C5_DegradationFloor ==
    /\ BaselineCase => pc # "raised"
    /\ (Returned /\ BaselineCase) =>
          /\ Len(result.forecast) = 6
          /\ Len(result.history) = SynthPoints
          /\ result.method = "naive_seasonal"
          /\ SeqMember(NoDataWarning, result.warnings)
          /\ ~SeqMember(EmptyHistoryWarning, result.warnings)
          /\ result.provenance # <<>>
          /\ result.provenance[Len(result.provenance)].tag = SynthTag

C5_Witness ==
    /\ DegradationCase
    /\ env.synth = "ok"
    /\ result.method = "naive_seasonal"
    /\ Len(result.history) = 12
    /\ Len(result.forecast) = 6

\* get_monthly_history has returned and forecast_monthly has not gone on yet
Resolved == pc = "resolved"

\* C6: when the live series fails the usability test and the local adapter
\* returns a usable series, the history returned by get_monthly_history is
\* the normalized local series and the provenance has a local entry.
C6_CascadeUsesLocal ==
    (/\ Resolved
     /\ liveRet.kind = "rows"
     /\ NeedsFallback(liveRet.rows)
     /\ localRet.kind = "rows"
     /\ ~NeedsFallback(localRet.rows))
    => /\ series = localRet.rows
       /\ monthly = _to_monthly_df(localRet.rows)
       /\ HasTag(LocalTag, provenance)
       /\ ~HasTag(SynthTag, provenance)

C6_Witness ==
    /\ Resolved
    /\ liveRet = Returns(MonthlyRows(0, <<5, 5>>))
    /\ localRet = Returns(MonthlyRows(0, Ramp(24, 0, 1)))
    /\ Len(monthly) = 24
    /\ HasTag(LocalTag, provenance)

\* C7: a seasonal-naive forecast repeats the last 12 observed months: step i
\* (0-based) is the history value at position n - 12 + (i mod 12); the history
\* 10, 20, ..., 120 with horizon 3 gives 10, 20, 30.
C7_SeasonalNaiveRepeats ==
    (Returned /\ result.method = "naive_seasonal") =>
        LET h == result.history
            f == result.forecast
            n == Len(h)
        IN /\ n >= 12
           /\ \A i \in 0..(Len(f) - 1) :
                 f[i + 1].yhat = Scale * h[(n - 12 + (i % 12)) + 1].value
           /\ ([k \in DOMAIN h |-> h[k].value] = Ramp(12, 0, 10) /\ horizon = 3)
                 => [k \in DOMAIN f |-> f[k].yhat] = <<10 * Scale, 20 * Scale, 30 * Scale>>

C7_Witness ==
    /\ Returned
    /\ result.method = "naive_seasonal"
    /\ Len(result.history) = 13
    /\ horizon = MaxHorizon
    /\ result.forecast[MaxHorizon].yhat = result.forecast[1].yhat
    /\ result.forecast[2].yhat # result.forecast[1].yhat

\* the sum of the values of the usable observations of rows dated in month m
RECURSIVE MonthTotal(_, _)
MonthTotal(rows, m) ==
    IF rows = <<>> THEN 0
    ELSE (IF Head(rows).dk = "ok" /\ Head(rows).vk = "num" /\ Head(rows).m = m
          THEN Head(rows).v ELSE 0) + MonthTotal(Tail(rows), m)
NormReturned == pc = "norm_out"

\* C8: in both branches of _to_monthly_df the value of each output month is
\* the sum of the input observations dated in that month, and every month
\* that has an observation is in the output; daily values summing to 310 in
\* January 2021 and 280 in February 2021 give {2021-01-01: 310, 2021-02-01: 280}.
C8_MonthlySum ==
    NormReturned =>
        /\ \A i \in DOMAIN monthly : monthly[i].value = MonthTotal(series, monthly[i].m)
        /\ \A j \in DOMAIN series :
              (series[j].dk = "ok" /\ series[j].vk = "num")
                  => \E i \in DOMAIN monthly : monthly[i].m = series[j].m
        /\ series = DailyRows(0, 2, [d \in 1..31 |-> 10])
              => [i \in DOMAIN monthly |-> [date |-> Strftime(monthly[i]), value |-> monthly[i].value]]
                   = << [date |-> [year |-> 2021, month |-> 1, day |-> 1], value |-> 310],
                        [date |-> [year |-> 2021, month |-> 2, day |-> 1], value |-> 280] >>

C8_Witness ==
    /\ NormReturned
    /\ series = DailyRows(0, 2, [d \in 1..31 |-> 10])
    /\ Len(monthly) = 2
    /\ monthly[1].value = 310
    /\ monthly[2].value = 280

\* a series that is already monthly and deduplicated: usable rows dated at
\* month starts, one per month, in increasing order
IsMonthlySeries(rows) ==
    /\ \A i \in DOMAIN rows : rows[i].dk = "ok" /\ rows[i].vk = "num" /\ rows[i].d = 1
    /\ \A i \in 1..(Len(rows) - 1) : rows[i].m < rows[i + 1].m

\* C9: _to_monthly_df returns an already monthly, deduplicated series
\* unchanged; in particular normalizing the output of a normalization changes
\* nothing.
C9_NormalizerIdempotent ==
    (NormReturned /\ (log # <<>> \/ IsMonthlySeries(series)))
        => AsSeries(monthly) = series

C9_Witness ==
    /\ NormReturned
    /\ log # <<>>
    /\ Len(series) >= DailyMinRows
    /\ \E i \in 1..(Len(series) - 1) : series[i + 1].m > series[i].m + 1
    /\ AsSeries(monthly) = series

\* C10: get_monthly_history never raises: no exception leaves the resolver.
ResolverSites == {"get_monthly_history:161", "get_monthly_history:185", "_to_monthly_df:50"}
C10_ResolverNeverRaises == ~(pc = "raised" /\ raisedAt \in ResolverSites)

-----------------------------------------------------------------------------
(* The forecast selector: order, choice and warnings                       *)

\* the strategies in the order of the selector, and the attempts logged
SelectorStages == <<"sarimax", "naive", "moving_avg", "synthetic_ext">>
SelectorLog == SelectSeq(log, LAMBDA e : \E k \in DOMAIN SelectorStages :
                                              SelectorStages[k] = e.stage)
\* the method name each strategy returns
MethodNames == <<"sarimax", "naive_seasonal", "moving_avg", "synthetic">>

\* C11: the selector attempts the strategies strictly in the order sarimax,
\* seasonal-naive, moving average, synthetic extension: the k-th attempt is
\* the k-th strategy, every attempt before it failed (so none follows a
\* success), and the method of a returned result names the strategy that
\* succeeded, whose mean and interval are the ones returned.
C11_StrategyOrder ==
    LET sl == SelectorLog
    IN /\ Len(sl) <= Len(SelectorStages)
       /\ \A i \in DOMAIN sl : sl[i].stage = SelectorStages[i]
       /\ \A i \in DOMAIN sl : \A j \in 1..(i - 1) : sl[j].out = "failed"
       /\ Returned =>
             /\ sl # <<>>
             /\ sl[Len(sl)].out = "ok"
             /\ result.method = MethodNames[Len(sl)]
             /\ Len(result.forecast) = Len(mean.rows)
             /\ \A i \in DOMAIN result.forecast :
                   /\ result.forecast[i].yhat = mean.rows[i].yhat
                   /\ result.forecast[i].yhat_lower = (IF conf[i].lo > 0 THEN conf[i].lo ELSE 0)

C11_Witness ==
    /\ Returned
    /\ Len(SelectorLog) = 3
    /\ result.method = "moving_avg"
    /\ result.forecast # <<>>

\* all values equal (or fewer than two of them)
FlatValues(values) == \A i, j \in DOMAIN values : values[i] = values[j]

\* C12: the method of a returned result is decided by the length n and the
\* flatness of the history: "sarimax" only if n >= 24 and the history is not
\* flat; otherwise "naive_seasonal" iff n >= 12, otherwise "moving_avg" iff
\* n >= 2, otherwise "synthetic"; a flat history with n >= 12 gives
\* "naive_seasonal".
C12_MethodByLength ==
    Returned =>
        LET n == Len(result.history)
            values == [i \in DOMAIN result.history |-> result.history[i].value]
            m == result.method
        IN /\ m = "sarimax" => (n >= 24 /\ ~FlatValues(values))
           /\ m # "sarimax" =>
                 m = (IF n >= 12 THEN "naive_seasonal"
                      ELSE IF n >= 2 THEN "moving_avg" ELSE "synthetic")
           /\ (n >= 12 /\ FlatValues(values)) => m = "naive_seasonal"

C12_Witness ==
    /\ Returned
    /\ Len(result.history) = 12
    /\ FlatValues([i \in DOMAIN result.history |-> result.history[i].value])
    /\ result.method = "naive_seasonal"
    /\ HasTag(LocalTag, result.provenance)

\* C13: the warning of the fallback to the synthetic extension is in the
\* warnings of a returned result iff its method is "synthetic", iff the three
\* strategies before it all failed; a result of another method carries only
\* the resolver's warnings, whichever strategies failed before it.
C13_FallbackWarning ==
    Returned =>
        /\ SeqMember(SynthExtWarning, result.warnings) <=> result.method = "synthetic"
        /\ result.method = "synthetic" <=> tried = <<"sarimax", "naive", "moving_avg">>
        /\ result.method # "synthetic" =>
              \A i \in DOMAIN result.warnings :
                  result.warnings[i] \in {NoDataWarning, EmptyHistoryWarning}

C13_Witness ==
    /\ Returned
    /\ result.method = "moving_avg"
    /\ tried = <<"sarimax", "naive">>
    /\ result.warnings = <<>>

-----------------------------------------------------------------------------
(* The history handed to the selector, the method names, the bounds        *)

\* C14: the monthly history that get_monthly_history returns has at least 2
\* points and is not flat.
C14_HistoryUsable ==
    Resolved => (Len(monthly) >= 2 /\ ~FlatValues(ValuesOf(monthly)))

\* C15 (as stated): the method of every returned result is one of
\* statistical_seasonal, seasonal_naive, moving_average, synthetic.
C15_MethodInSpecNames ==
    Returned => result.method \in {"statistical_seasonal", "seasonal_naive",
                                   "moving_average", "synthetic"}

\* C15 (amended): the method of every returned result is one of sarimax,
\* naive_seasonal, moving_avg, synthetic.
C15_MethodInCodeNames ==
    Returned => result.method \in {"sarimax", "naive_seasonal", "moving_avg", "synthetic"}

C15_Witness ==
    /\ Returned
    /\ result.method = "moving_avg"
    /\ Len(result.history) = 7

\* C16: every series _to_monthly_df returns has month-start dates only, in
\* strictly increasing order, no month twice, whatever the order, cadence and
\* duplication of the input.
C16_MonthStartsIncreasing ==
    NormReturned =>
        /\ \A i \in DOMAIN monthly : monthly[i].d = 1
        /\ \A i \in 1..(Len(monthly) - 1) : monthly[i].m < monthly[i + 1].m

C16_Witness ==
    /\ NormReturned
    /\ Len(series) = 4
    /\ series[1].m > series[2].m
    /\ series[1].d = 5
    /\ Len(monthly) = 2
    /\ monthly[2].value = 5

\* C17: the series _to_monthly_df returns is gap-free: every calendar month
\* between its first and its last month is in it.
C17_GapFree ==
    NormReturned =>
        \A k \in 0..(IF monthly = <<>> THEN 0 - 1 ELSE monthly[Len(monthly)].m - monthly[1].m) :
            \E i \in DOMAIN monthly : monthly[i].m = monthly[1].m + k

\* C18: both bounds of every forecast point of a returned result are >= 0 and
\* ordered, yhat_lower <= yhat_upper, for every strategy; the half-width of
\* the interval they were clamped from is never negative.
C18_BoundsClamped ==
    Returned =>
        /\ \A i \in DOMAIN result.forecast :
              LET p == result.forecast[i]
              IN p.yhat_lower >= 0 /\ p.yhat_upper >= 0 /\ p.yhat_lower <= p.yhat_upper
        /\ \A i \in DOMAIN conf : conf[i].lo <= conf[i].hi

C18_Witness ==
    /\ Returned
    /\ result.method = "moving_avg"
    /\ \E i \in DOMAIN result.forecast :
          /\ conf[i].lo < 0
          /\ result.forecast[i].yhat_lower = 0
          /\ result.forecast[i].yhat_upper > 0

-----------------------------------------------------------------------------
(* The gating of the resolver stages                                       *)

\* the usability predicate: at least 2 observations, not all of one value
Usable(rows) ==
    /\ Len(rows) >= 2
    /\ \E i, j \in DOMAIN rows : rows[i].v # rows[j].v
\* the series held after the live stage and after the local stage
HeldAfterLive == IF liveRet.kind = "rows" THEN liveRet.rows ELSE <<>>
HeldAfterLocal == IF gotLocal THEN localRet.rows ELSE HeldAfterLive
LocalCalled == \E i \in DOMAIN log : log[i].stage = "local"
SynthCalled == \E i \in DOMAIN log : log[i].stage = "synthetic"

\* C19: the local adapter is called only if the series held after the live
\* stage is not usable; get_monthly_history invokes the synthetic generator
\* iff the series held after the live and the local stage is not usable; no
\* stage runs once an earlier one has supplied a usable series.
C19_StagesGated ==
    /\ LocalCalled => ~Usable(HeldAfterLive)
    /\ SynthCalled => ~Usable(HeldAfterLocal)
    /\ pc \in {"normalize", "resolved"} => (SynthCalled <=> ~Usable(HeldAfterLocal))
    /\ Usable(HeldAfterLive) => (~LocalCalled /\ ~SynthCalled)

C19_Witness ==
    /\ Resolved
    /\ liveRet = Returns(MonthlyRows(0, <<5, 5>>))
    /\ LocalCalled
    /\ gotLocal
    /\ Usable(localRet.rows)
    /\ ~SynthCalled

\* C20: the local loop stops before its last candidate only on a usable
\* series: a candidate whose series is non-empty but unusable does not end
\* the iteration.
C20_LocalLoopSeeksUsable ==
    (gotLocal /\ ri < Len(triedRegions)) => Usable(localRet.rows)

-----------------------------------------------------------------------------
(* Provenance and warnings of the resolver                                 *)

\* 1 for a true condition, 0 for a false one
Count(b) == IF b THEN 1 ELSE 0
\* how many times x occurs in xs
Occurrences(x, xs) == Cardinality({i \in DOMAIN xs : xs[i] = x})
LiveCalled == liveRet.kind # "not called"
LiveSupplied == liveRet.kind = "rows" /\ liveRet.rows # <<>>
\* the synthetic stage of get_monthly_history ran to its end
SynthCompleted ==
    \E i \in DOMAIN log : log[i].stage = "synthetic" /\ log[i].out # "raise"

\* C21 (as stated): when get_monthly_history returns, the length of the
\* provenance equals the number of stages (live, local, synthetic) executed.
C21_OneEntryPerStage ==
    Resolved =>
        Len(provenance) = Count(LiveCalled) + Count(LocalCalled) + Count(SynthCalled)

\* C21 (amended): a stage appends one provenance entry when it supplies a
\* series and none otherwise: the live stage one iff the live adapter
\* returned a non-empty series, the local stage one iff a candidate key
\* returned a non-empty series, the synthetic stage one whenever it runs to
\* its end; the length of the provenance is the number of these, at every
\* point of the resolver, and no tag occurs twice.
C21_OneEntryPerSupplyingStage ==
    pc \in {"local", "local_loop", "synthetic", "normalize", "resolved"} =>
        /\ Len(provenance) = Count(LiveSupplied) + Count(gotLocal) + Count(SynthCompleted)
        /\ \A i, j \in DOMAIN provenance :
              provenance[i].tag = provenance[j].tag => i = j

C21_Witness ==
    /\ Resolved
    /\ LiveCalled
    /\ ~LiveSupplied
    /\ LocalCalled
    /\ ~gotLocal
    /\ SynthCompleted
    /\ Len(provenance) = 1

\* the stages of get_monthly_history past the local one
PastLocal == pc \in {"synthetic", "normalize", "resolved"}

\* C22: the warning of the local stage is appended once, and only when the
\* local stage ran and no candidate key matched: then every candidate key
\* was tried before it, the synthetic stage has not run when it is appended
\* and always runs after it; when a candidate matched it is not appended.
C22_NoMatchWarning ==
    /\ Occurrences(NoDataWarning, warnings) <= 1
    /\ SeqMember(NoDataWarning, warnings) => PastLocal \/ pc \notin {"idle", "live", "local", "local_loop"}
    /\ PastLocal =>
          (SeqMember(NoDataWarning, warnings) <=> (LocalCalled /\ ~gotLocal))
    /\ (PastLocal /\ SeqMember(NoDataWarning, warnings)) =>
          /\ Cardinality({i \in DOMAIN log : log[i].stage = "local"}) = Len(triedRegions)
          /\ pc = "synthetic" => (~SynthCalled /\ ~Usable(series))
          /\ pc \in {"normalize", "resolved"} => SynthCalled
    /\ (PastLocal /\ gotLocal) => ~SeqMember(NoDataWarning, warnings)

C22_Witness ==
    /\ Resolved
    /\ Len(triedRegions) = 2
    /\ LocalCalled
    /\ ~gotLocal
    /\ warnings = <<NoDataWarning>>
    /\ SynthCalled

\* the lower-cased disease contains "covid"
MentionsCovid(dis) ==
    \E i \in 1..(Len(dis) - 4) :
        <<LowerChar(dis[i]), LowerChar(dis[i + 1]), LowerChar(dis[i + 2]),
          LowerChar(dis[i + 3]), LowerChar(dis[i + 4])>> = <<"c", "o", "v", "i", "d">>

\* C23: the live adapter is called only when the lower-cased disease
\* contains "covid"; for any other disease, the empty one included, it is
\* never called and the provenance never has a live entry.
C23_LiveOnlyForCovid ==
    ~MentionsCovid(disease) =>
        /\ ~LiveCalled
        /\ ~HasTag(LiveTag, provenance)
        /\ \A i \in DOMAIN log : log[i].stage # "live"

C23_Witness ==
    /\ Resolved
    /\ disease = Disease_empty
    /\ ~LiveCalled
    /\ provenance # <<>>

-----------------------------------------------------------------------------
(* Termination, the moving average, the provenance order, local failures   *)

\* the stages of a call in the order the code reaches them
StageOrder == <<"live", "local", "synthetic", "synthetic_history",
                "sarimax", "naive", "moving_avg", "synthetic_ext">>
StageRank(name) == CHOOSE k \in DOMAIN StageOrder : StageOrder[k] = name
\* every stage is logged at most once (the local one at most once per
\* candidate key), and the log follows the order of the stages
StagesOnceInOrder ==
    /\ \A i \in DOMAIN log : \E k \in DOMAIN StageOrder : StageOrder[k] = log[i].stage
    /\ \A i, j \in DOMAIN log :
          i < j => StageRank(log[i].stage) <= StageRank(log[j].stage)
    /\ \A i, j \in DOMAIN log :
          (i < j /\ log[i].stage = log[j].stage) =>
              (log[i].stage = "local" /\ log[i].key # log[j].key)
Ended == pc \in {"done", "raised"}

\* the positions of a call in the order the code passes them
PcOrder == <<"idle", "live", "local", "local_loop", "synthetic", "normalize",
             "resolved", "sarimax", "naive", "moving_avg", "synthetic_ext",
             "format", "done", "raised">>
PcRank(p) == CHOOSE k \in DOMAIN PcOrder : PcOrder[k] = p
\* every step moves the call forward: to a later position, or to the next
\* candidate key of the local loop; no position is entered twice
CallProgresses ==
    [][\/ PcRank(pc') > PcRank(pc)
       \/ (pc = "local_loop" /\ pc' = "local_loop" /\ ri' = ri + 1
           /\ ri <= Len(triedRegions))]_vars

\* C24: every call terminates with its result assembled: the resolver and
\* the selector pass through their stages at most once each, in order, and
\* a call that ends has reached the point where the result is built.
C24_EveryCallCompletes ==
    /\ StagesOnceInOrder
    /\ Ended => pc = "done"

\* the four sources of candidates for the trimmed input s, in the order of
\* the claim; <<>> where a source gives nothing
CandidateSlots(s, isoFailed) ==
    << s,
       _ALIAS_TO_ISO3(StrLower(s)),
       IF isoFailed THEN <<>> ELSE StrUpper(to_iso3(s)),
       IF Len(s) = 3 /\ StrIsAlpha(s) THEN StrUpper(s) ELSE <<>> >>
FirstSlot(x, slots) == CHOOSE k \in DOMAIN slots : slots[k] = x /\ \A j \in 1..(k - 1) : slots[j] # x
IsoFailed == log # <<>> /\ log[1].stage = "to_iso3" /\ log[1].out = "raise"

\* C25: _region_candidates returns, whether to_iso3 answers or raises, a
\* list without repetition; the list is empty exactly when the trimmed input
\* is empty; otherwise it holds exactly the trimmed input, its alias code, the
\* to_iso3 code and the upper-cased 3-letter input, in that order, the
\* trimmed input first.
C25_CandidatesOrdered ==
    pc \in {"cand_in", "cand_out"} /\ raisedAt = "" /\
    (pc = "cand_out" =>
        LET s == StrStrip(region)
            out == triedRegions
            slots == CandidateSlots(s, IsoFailed)
        IN /\ \A i, j \in DOMAIN out : i # j => out[i] # out[j]
           /\ (out = <<>>) <=> (s = <<>>)
           /\ s # <<>> =>
                /\ out[1] = s
                /\ \A i \in DOMAIN out : \E k \in DOMAIN slots : slots[k] = out[i]
                /\ \A k \in DOMAIN slots : slots[k] # <<>> => InList(slots[k], out)
                /\ \A i, j \in DOMAIN out :
                     i < j => FirstSlot(out[i], slots) < FirstSlot(out[j], slots))

\* a padded "usa" while to_iso3 raises: the input and its alias code
C25_Witness ==
    /\ pc = "cand_out"
    /\ IsoFailed
    /\ region # StrStrip(region)
    /\ Len(triedRegions) = 2
    /\ triedRegions[2] = <<"U","S","A">>

\* C26: a moving-average forecast of a history of n >= 2 points has the same
\* estimate at every step, the mean of the last min(6, n) values, and a
\* half-width of 1.64 times the standard deviation of that same window.
C26_MovingAverageWindow ==
    (Returned /\ result.method = "moving_avg") =>
        LET values == [i \in DOMAIN result.history |-> result.history[i].value]
            n == Len(values)
            w == IF n < 6 THEN n ELSE 6
            window == SubSeq(values, n - w + 1, n)
            avg == (Scale * SumSeq(window)) \div w
            half == (164 * Std(window)) \div 100
        IN /\ n >= 2
           /\ \A i \in DOMAIN result.forecast : result.forecast[i].yhat = avg
           /\ \A i \in DOMAIN conf : conf[i].hi - avg = half /\ avg - conf[i].lo = half

C26_Witness ==
    /\ Returned
    /\ result.method = "moving_avg"
    /\ Len(result.history) = 7
    /\ Len(result.forecast) = 3

\* the rank of a provenance tag in the order of the stages
TagOrder == <<LiveTag, LocalTag, SynthTag>>
TagRank(tag) == CHOOSE k \in DOMAIN TagOrder : TagOrder[k] = tag

\* C27: when get_monthly_history returns, the provenance is not empty, its
\* entries are in stage order (live, local, synthetic), each at most once,
\* and the last entry names the stage whose series is the one normalized
\* and returned.
C27_ProvenanceOrder ==
    Resolved =>
        /\ provenance # <<>>
        /\ \A i \in DOMAIN provenance : \E k \in DOMAIN TagOrder : TagOrder[k] = provenance[i].tag
        /\ \A i, j \in DOMAIN provenance :
              i < j => TagRank(provenance[i].tag) < TagRank(provenance[j].tag)
        /\ LET last == provenance[Len(provenance)].tag
           IN /\ last = LiveTag => (LiveSupplied /\ series = liveRet.rows)
              /\ last = LocalTag => (gotLocal /\ series = localRet.rows)
              /\ last = SynthTag => (SynthCompleted /\ series = SynthAnswer(env.synth, dateFrom))
        /\ monthly = _to_monthly_df(series)

C27_Witness ==
    /\ Resolved
    /\ Len(provenance) = 3
    /\ provenance[1].tag = LiveTag
    /\ provenance[2].tag = LocalTag
    /\ provenance[3].tag = SynthTag

\* the calls made to the local adapter, in order
LocalEntries == SelectSeq(log, LAMBDA e : e.stage = "local")

\* C28: an exception of the local adapter for one candidate key counts as an
\* empty answer for that key only: the keys are tried in order, the keys
\* after a failed one are still tried, the provenance gets no entry for the
\* failed key and the exception does not end the call.
C28_LocalFailureIsolated ==
    /\ \A i \in DOMAIN LocalEntries :
          /\ i <= Len(triedRegions)
          /\ LocalEntries[i].key = triedRegions[i]
    /\ \A i \in DOMAIN LocalEntries :
          LocalEntries[i].out = "raise" =>
              /\ ~\E k \in DOMAIN provenance :
                    provenance[k] = Prov(LocalTag, LocalEntries[i].key)
              /\ (i < Len(triedRegions) /\ pc # "local_loop") => Len(LocalEntries) > i
    /\ (log # <<>> /\ log[Len(log)].stage = "local" /\ log[Len(log)].out = "raise")
          => pc \in {"local_loop", "synthetic"}

C28_Witness ==
    /\ Resolved
    /\ Len(LocalEntries) = 2
    /\ LocalEntries[1].out = "raise"
    /\ LocalEntries[2].out = "rows"
    /\ provenance = <<Prov(LocalTag, triedRegions[2])>>

-----------------------------------------------------------------------------
(* The outbound URL allowlist                                              *)

\* the hosts of the model that are localhost or a literal of a private or
\* link-local network (127/8, 10/8, 172.16/12, 192.168/16, 169.254/16, ::1,
\* fc00::/7, fe80::/10), written out
LocalOrPrivateHosts ==
    { <<"l","o","c","a","l","h","o","s","t">>,
      <<"1","2","7",".","0",".","0",".","1">>,
      <<"1","0",".","0",".","0",".","5">>,
      <<"1","7","2",".","1","6",".","0",".","1">>,
      <<"1","7","2",".","3","1",".","9",".","9">>,
      <<"1","9","2",".","1","6","8",".","1",".","1">>,
      <<"1","6","9",".","2","5","4",".","1","6","9",".","2","5","4">>,
      <<":",":","1">>, <<"f","c","0","0",":",":","1">>,
      <<"f","d","1","2",":",":","5">>, <<"f","e","8","0",":",":","1">> }
CheckedUrl == log[1].key
CheckedHost == StrStrip(StrLower(CheckedUrl.host))
CheckedHttps == StrLower(CheckedUrl.scheme) = <<"h","t","t","p","s">>
CheckedListed ==
    _host_allowed(CheckedHost, ALLOW_DOMAINS(env.domains),
                  ALLOW_WILDCARD_SUFFIXES(env.wildcards))

\* C29: allow_outbound_url answers ok only for an https URL whose host is
\* non-empty, neither localhost nor a private or link-local IP literal, and
\* allowlisted by name or by suffix; a local or private host gets
\* "local-or-private-host" whatever the environment added to the allowlist;
\* the reason is that of the first failing check: scheme, host,
\* local/private, allowlist.
C29_OnlyAllowlistedHttps ==
    pc = "url_done" =>
        /\ result.ok =>
             /\ CheckedUrl.kind = "url"
             /\ CheckedHttps
             /\ CheckedHost # <<>>
             /\ CheckedHost \notin LocalOrPrivateHosts
             /\ CheckedListed
        /\ result.ok <=> (result.reason = "ok")
        /\ (CheckedUrl.kind = "url" /\ CheckedHttps /\ CheckedHost \in LocalOrPrivateHosts)
              => result = [ok |-> FALSE, reason |-> "local-or-private-host"]
        /\ CheckedUrl.kind = "url" =>
             result.reason =
                IF ~CheckedHttps THEN "scheme-not-allowed"
                ELSE IF CheckedHost = <<>> THEN "no-host"
                ELSE IF CheckedHost \in LocalOrPrivateHosts THEN "local-or-private-host"
                ELSE IF ~CheckedListed THEN "domain-not-allowlisted"
                ELSE "ok"

\* a private address the environment put on the allowlist is still rejected
C29_Witness ==
    /\ pc = "url_done"
    /\ CheckedHost = <<"1","0",".","0",".","0",".","5">>
    /\ CheckedHost \in ALLOW_DOMAINS(env.domains)
    /\ result = [ok |-> FALSE, reason |-> "local-or-private-host"]

-----------------------------------------------------------------------------
(* Link filtering of /route/search                                         *)

SearchItems == log[1].out
SearchAnswer == log[2].out
SecurityEnabled == env.SEC_BASE # ""
\* the request reached the security agent and the agent sent a response
AgentAnswered == SearchAnswer.kind \in {"rows", "status-401", "status-500", "not-json"}
AgentUnreachable == SearchAnswer.kind \in {"connect-error", "timeout"}
Approved(u) ==
    /\ SearchAnswer.kind = "rows"
    /\ \E i \in DOMAIN SearchAnswer.rows :
         SearchAnswer.rows[i].url = u /\ SearchAnswer.rows[i].ok
ReturnedUrls == { result.items[i].url : i \in DOMAIN result.items }
AskedUrls == { UrlsOf(SearchItems)[i] : i \in DOMAIN UrlsOf(SearchItems) }
AllLinksKept == ReturnedUrls = AskedUrls

\* whatever the agent does: an item is returned only with its URL approved
\* or with the filter open (no agent configured, or the request failed),
\* never without a URL, and in the order of the retrieval agent
FilterEnforcedOrOpen ==
    pc = "search_done" =>
        /\ NoUrl \notin ReturnedUrls
        /\ \A u \in ReturnedUrls :
             Approved(u) \/ ~SecurityEnabled \/ SearchAnswer.kind # "rows"
        /\ SearchAnswer.kind = "rows" =>
             ReturnedUrls = { u \in AskedUrls : Approved(u) }

\* C30: with a security agent that is enabled and answers, an item is
\* returned only if the agent approved its URL; links the agent did not
\* approve are all kept only when the agent is disabled or unreachable.
C30_OnlyApprovedReturned ==
    pc = "search_done" =>
        /\ (SecurityEnabled /\ AgentAnswered) => \A u \in ReturnedUrls : Approved(u)
        /\ (AllLinksKept /\ \E u \in ReturnedUrls : ~Approved(u))
              => (~SecurityEnabled \/ AgentUnreachable)

=============================================================================
